---- MODULE Spec2Model ----
(***************************************************************************)
(* Session execution engine of the workout tracker (WorkoutExecutor, with  *)
(* the SetTracker that feeds it and the page that mounts it): Spec.  The   *)
(* Timer component on its own, driven by its props and buttons: TimerSpec. *)
(* The dashboard statistics, calculateDashboardStats: StatsSpec, and on    *)
(* histories of several exercise types and weeks: RecordsSpec.  The        *)
(* numeric helpers calculateOneRepMax and findPlateaus: OneRepMaxSpec and  *)
(* PlateauSpec.  The template pages over the store: TemplateSpec.  The     *)
(* session when localStorage and the store can refuse a write: FailSpec.   *)
(* A fresh session in which the user only records sets and ends rests,     *)
(* with the fairness that makes it progress: LiveSpec.                     *)
(*                                                                         *)
(* Session time is counted in units of 30 seconds, timer time in seconds,  *)
(* dates of the statistics in hours.  Indices are 0-based as in the        *)
(* source; sequences are 1-based, so exercises[i + 1] is exercises[i].     *)
(*                                                                         *)
(* React scheduling: a state update made by a UI event handler is rendered *)
(* (and its effects run) before the next event; an update made outside a   *)
(* UI event (the rest timer's completion callback, the continuation of an  *)
(* awaited store update) is queued in `pending` and rendered by a later    *)
(* step, Render.  Handlers read `session` as the closure of the last       *)
(* committed render.                                                       *)
(***************************************************************************)
EXTENDS Integers, Sequences, FiniteSets, TLC

\* ---- bounds of the model ----
MaxTotalSets == 3   \* sets in a workout, over all its exercises
MaxSaves == 1       \* saveProgress store updates awaiting their result
MaxCompletes == 1   \* completeWorkout store updates awaiting their result
MaxFailSets == 2    \* sets in a workout executed while writes can fail
MaxFaults == 1      \* persistence writes that fail in one run

Null == [null |-> TRUE]
WorkoutId == "w1"
NoteInputs == {"n"}
SetInputs == {<<1, 0>>, <<2, 0>>, <<0, 0>>, <<1, -1>>}   \* <<reps, weight>>
ClockInputs == {0, 3}   \* what new Date() can return, in units of 30 s

VARIABLES
  dbWorkout,        \* the Workout record in the store (db.workouts)
  snapshot,         \* localStorage item workout_session_<workoutId>
  inflight,         \* store updates issued and not yet settled
  mounted,          \* the executor component is mounted
  workout,          \* component state: workout
  session,          \* component state: session (last committed render)
  currentTimer,     \* component state: currentTimer
  restTime,         \* component state: restTime
  isWorkoutPaused,  \* component state: isWorkoutPaused
  pending,          \* updates queued outside a UI event, not yet rendered
  last,             \* history: the last operation, what it did, its toast
  completedOk,      \* history: completeWorkout finished successfully in this mount
  exitSession,      \* history: the session at the last exit, Null otherwise
  faults,           \* persistence writes that can still fail in this run
  timer,            \* a Timer component: its props, its state, what it has done
  stats,            \* a calculateDashboardStats call: its arguments and result
  calc,             \* a call of a numeric helper: its arguments and result
  store             \* db.workouts as the template pages see it: id -> record

vars == <<dbWorkout, snapshot, inflight, mounted, workout, session,
          currentTimer, restTime, isWorkoutPaused, pending, last, completedOk,
          exitSession, faults, timer, stats, calc, store>>

\* ---- data ----
\* planner default rest is 60 s; later sets of an exercise rest longer here
RestTimeOf(s) == 60 + 30 * s

NewSet(e, s) ==
  [id |-> <<e, s>>, restTime |-> RestTimeOf(s), completed |-> FALSE,
   actualReps |-> {}, actualWeight |-> {}]

RECURSIVE Sum(_)
Sum(shape) == IF shape = <<>> THEN 0 ELSE Head(shape) + Sum(Tail(shape))

\* the set counts of a workout's exercises: every exercise has a set
SetShapes ==
  {shape \in UNION {[1..n -> 1..MaxTotalSets] : n \in 0..MaxTotalSets} :
     Sum(shape) <= MaxTotalSets}

NewWorkout(shape) ==
  [id |-> WorkoutId,
   exercises |-> [e \in 1..Len(shape) |->
                    [sets |-> [s \in 1..shape[e] |-> NewSet(e - 1, s - 1)]]],
   notes |-> "", duration |-> 0, completedAt |-> {}]

\* ---- JSON.stringify / JSON.parse of a session ----
DateOf(t) == [date |-> t]

ToJSON(d) == IF "date" \in DOMAIN d THEN [iso |-> d.date] ELSE d

NewDate(x) == IF "iso" \in DOMAIN x THEN [date |-> x.iso] ELSE x

Stringify(sess) == [sess EXCEPT !.startTime = ToJSON(sess.startTime)]

\* a restore that keeps the completed sets but puts the cursor back on the
\* first set
RestoreSessionAtFirstSet(parsed) ==
  [parsed EXCEPT !.startTime = NewDate(parsed.startTime),
                 !.currentExerciseIndex = 0, !.currentSetIndex = 0]

RestoreSession(parsed) == [parsed EXCEPT !.startTime = NewDate(parsed.startTime)]

\* a stored item that is not JSON: JSON.parse throws on it
Unparseable == [unparseable |-> TRUE]

ParseFails(item) == "unparseable" \in DOMAIN item

\* a stored item that parses but whose cursor names no exercise of the workout
OutOfRange(w) ==
  Stringify([workoutId |-> w.id, startTime |-> DateOf(0),
             currentExerciseIndex |-> Len(w.exercises) + 1,
             currentSetIndex |-> 0, isPaused |-> FALSE, totalRestTime |-> 0,
             completedSets |-> <<>>, notes |-> ""])

\* what localStorage can hold under the key before the first start, other
\* than nothing
SnapshotInputs == {"unparseable", "outOfRange"}

StoredItem(kind, w) == IF kind = "unparseable" THEN Unparseable ELSE OutOfRange(w)

InitializeSession(w, t) ==
  [workoutId |-> w.id, startTime |-> DateOf(t),
   currentExerciseIndex |-> 0, currentSetIndex |-> 0, isPaused |-> FALSE,
   totalRestTime |-> 0, completedSets |-> <<>>, notes |-> ""]

\* ---- read helpers ----
GetCurrentExercise(w, sess) ==
  IF sess.currentExerciseIndex \in 0..(Len(w.exercises) - 1)
    THEN w.exercises[sess.currentExerciseIndex + 1] ELSE Null

GetCurrentSet(w, sess) ==
  LET ex == GetCurrentExercise(w, sess) IN
  IF ex = Null THEN Null
  ELSE IF sess.currentSetIndex \in 0..(Len(ex.sets) - 1)
    THEN ex.sets[sess.currentSetIndex + 1] ELSE Null

RECURSIVE SumSets(_)
SumSets(exs) == IF exs = <<>> THEN 0 ELSE Len(Head(exs).sets) + SumSets(Tail(exs))

GetWorkoutProgress(w, sess) ==
  [completed |-> Len(SelectSeq(sess.completedSets, LAMBDA cs : cs.completed)),
   total |-> SumSets(w.exercises)]

\* completedSets.find(cs => cs.id === set.id)
FindCompleted(css, id) ==
  LET hits == SelectSeq(css, LAMBDA cs : cs.id = id) IN
  IF hits = <<>> THEN Null ELSE Head(hits)

\* Math.round((end - start) / 1000 / 60), with time in units of 30 s
DurationMinutes(start, end) == (end - start + 1) \div 2

\* ---- saveProgress ----
UpdatedExercises(w, sess) ==
  [e \in DOMAIN w.exercises |->
     [w.exercises[e] EXCEPT !.sets =
        [s \in DOMAIN w.exercises[e].sets |->
           LET set == w.exercises[e].sets[s]
               completedSet == FindCompleted(sess.completedSets, set.id)
           IN IF completedSet # Null THEN completedSet ELSE set]]]

\* the store update saveProgress issues
SaveOp(w, sess) ==
  [kind |-> "save", exercises |-> UpdatedExercises(w, sess), notes |-> sess.notes]

\* a snapshot written without the completed sets
SaveSnapshotWithoutSets(sess) == Stringify([sess EXCEPT !.completedSets = <<>>])

\* the item saveProgress writes to localStorage
SaveSnapshot(sess) == Stringify(sess)

\* what localStorage.setItem can do
SetItemOutcomes == IF faults > 0 THEN {"stored", "throws"} ELSE {"stored"}

\* saveProgress of sess, run by the session-change effect after the handler
\* issued the store updates ops: setItem, then the store update; a throw of
\* setItem is caught and the store update is not issued
SaveProgress(w, sess, ops) ==
  \E outcome \in SetItemOutcomes :
    IF outcome = "stored"
      THEN /\ snapshot' = SaveSnapshot(sess)
           /\ inflight' = inflight \o ops \o <<SaveOp(w, sess)>>
           /\ faults' = faults
      ELSE /\ snapshot' = snapshot
           /\ inflight' = inflight \o ops
           /\ faults' = faults - 1

\* ---- completeWorkout, up to its await ----
CompleteOp(sess, t) ==
  [kind |-> "complete", duration |-> DurationMinutes(sess.startTime.date, t),
   completedAt |-> {DateOf(t)}, notes |-> sess.notes]

\* the updates completeWorkout can issue, for what new Date() can return
CompleteOps(sess, complete) ==
  IF complete
    THEN {<<CompleteOp(sess, t)>> :
            t \in {c \in ClockInputs : c >= sess.startTime.date}}
    ELSE {<<>>}

\* moveToNextExercise that completes the workout after any exercise
MoveToNextExerciseCompleting(w, sess) ==
  [tag |-> "clearTimer", complete |-> TRUE]

\* ---- cursor moves: what moveToNextSet / moveToNextExercise ask for ----
MoveToNextExercise(w, sess) ==
  IF sess.currentExerciseIndex < Len(w.exercises) - 1
    THEN [tag |-> "nextExercise", complete |-> FALSE]
    ELSE [tag |-> "clearTimer", complete |-> TRUE]

MoveToNextSet(w, sess) ==
  LET exercise == GetCurrentExercise(w, sess) IN
  IF exercise = Null THEN [tag |-> "clearTimer", complete |-> FALSE]
  ELSE IF sess.currentSetIndex < Len(exercise.sets) - 1
    THEN [tag |-> "nextSet", complete |-> FALSE]
    ELSE MoveToNextExercise(w, sess)

\* the functional updaters passed to setSession
ApplyTag(tag, prev) ==
  CASE tag = "nextSet" ->
         [prev EXCEPT !.currentSetIndex = prev.currentSetIndex + 1]
    [] tag = "nextExercise" ->
         [prev EXCEPT !.currentExerciseIndex = prev.currentExerciseIndex + 1,
                      !.currentSetIndex = 0]
    [] OTHER -> prev

RECURSIVE ApplyAll(_, _)
ApplyAll(tags, prev) ==
  IF tags = <<>> THEN prev ELSE ApplyAll(Tail(tags), ApplyTag(Head(tags), prev))

SetsSession(tag) == tag \in {"nextSet", "nextExercise"}

\* a record of the current set that keeps the entry the set already has
RecordCompletedKeepingPrior(css, currentSet, reps, weight) ==
  Append(css,
         [currentSet EXCEPT !.actualReps = {reps}, !.actualWeight = {weight},
                            !.completed = TRUE])

\* completedSets after completeSet records the current set (the set's endTime,
\* a timestamp nothing reads, is not kept)
RecordCompleted(css, currentSet, reps, weight) ==
  Append(SelectSeq(css, LAMBDA cs : cs.id # currentSet.id),
         [currentSet EXCEPT !.actualReps = {reps}, !.actualWeight = {weight},
                            !.completed = TRUE])

\* the validation with reps < 0 in place of reps <= 0
InvalidInputNegativeOnly(reps, weight) == reps < 0 \/ weight < 0

\* the validation without its test of the weight
InvalidInputRepsOnly(reps, weight) == reps <= 0

\* SetTracker.handleComplete's validation
InvalidInput(reps, weight) == reps <= 0 \/ weight < 0

\* the button hidden while the workout has no sets
FinishVisibleNonEmpty(w, sess) ==
  /\ GetWorkoutProgress(w, sess).total > 0
  /\ GetWorkoutProgress(w, sess).completed = GetWorkoutProgress(w, sess).total

\* the "Finish Workout" button is rendered
FinishVisible(w, sess) ==
  GetWorkoutProgress(w, sess).completed = GetWorkoutProgress(w, sess).total

\* a SetTracker that is enabled whenever it is rendered
TrackerRendered == GetCurrentSet(workout, session) # Null

\* the SetTracker is rendered and enabled
TrackerEnabled ==
  /\ GetCurrentSet(workout, session) # Null
  /\ ~isWorkoutPaused
  /\ currentTimer # "rest"

\* store updates of one kind awaiting their result
Awaiting(kind) == Len(SelectSeq(inflight, LAMBDA op : op.kind = kind))

CanSave == Awaiting("save") < MaxSaves

CanComplete == Awaiting("complete") < MaxCompletes

\* history of an operation: its name and arguments, whether it returned early
\* on invalid input, whether it invoked completeWorkout, the toast it showed and
\* the value it returned to its caller (every handler returns undefined)
Hist(op, rejected, complete, msg) ==
  [op |-> op, args |-> <<>>, rejected |-> rejected, complete |-> complete,
   toast |-> msg, result |-> "undefined"]

MoveToast(move) == IF move.tag = "nextExercise" THEN "Moving to next exercise" ELSE ""

Ready == mounted /\ session # Null

\* nothing is mounted; the store holds a planned workout
ExecInit ==
  /\ \E shape \in SetShapes : dbWorkout = NewWorkout(shape)
  /\ snapshot = Null
  /\ inflight = <<>>
  /\ mounted = FALSE
  /\ workout = Null
  /\ session = Null
  /\ currentTimer = "null"
  /\ restTime = 0
  /\ isWorkoutPaused = FALSE
  /\ pending = <<>>
  /\ last = Hist("init", FALSE, FALSE, "")
  /\ completedOk = FALSE
  /\ exitSession = Null
  /\ timer = Null
  /\ stats = Null
  /\ calc = Null
  /\ store = Null

Init == ExecInit /\ faults = 0

\* mount: loadWorkout, then the render and the session-change save effect
Start(now) ==
  /\ ~mounted
  /\ dbWorkout.completedAt = {}   \* only an unfinished workout is executed
  /\ CanSave
  /\ LET w == dbWorkout
         restored == snapshot # Null /\ ~ParseFails(snapshot)
         sess == IF restored THEN RestoreSession(snapshot)
                             ELSE InitializeSession(w, now)
         op == IF snapshot = Null THEN "start"
               ELSE IF restored THEN "restore" ELSE "discard"
     IN /\ workout' = w
        /\ session' = sess
        /\ SaveProgress(w, sess, <<>>)
        /\ last' = [Hist(op, FALSE, FALSE, "")
                       EXCEPT !.args = IF snapshot = Null THEN <<>>
                                       ELSE <<snapshot>>]
  /\ mounted' = TRUE
  /\ currentTimer' = "null"
  /\ restTime' = 0
  /\ isWorkoutPaused' = FALSE
  /\ pending' = <<>>
  /\ completedOk' = FALSE
  /\ exitSession' = Null
  /\ UNCHANGED dbWorkout
  /\ UNCHANGED <<timer, stats, calc, store>>

\* the key holds an item this session did not write, before the first start
ForeignSnapshot(kind) ==
  /\ ~mounted
  /\ last.op = "init"
  /\ snapshot = Null
  /\ snapshot' = StoredItem(kind, dbWorkout)
  /\ UNCHANGED <<dbWorkout, inflight, mounted, workout, session, currentTimer,
                 restTime, isWorkoutPaused, pending, last, completedOk,
                 exitSession>>
  /\ UNCHANGED <<faults, timer, stats, calc, store>>

\* the session the auto-save interval's callback reads: the interval is set up
\* once per workoutId, in the effect of the first render, where session is null
IntervalSession == Null

\* the 30 s auto-save interval fires: if (session) saveProgress()
AutoSaveTick ==
  /\ mounted
  /\ IF IntervalSession # Null
     THEN /\ CanSave
          /\ SaveProgress(workout, IntervalSession, <<>>)
     ELSE UNCHANGED <<snapshot, inflight, faults>>
  /\ UNCHANGED <<dbWorkout, mounted, workout, session, currentTimer, restTime,
                 isWorkoutPaused, pending, last, completedOk, exitSession>>
  /\ UNCHANGED <<timer, stats, calc, store>>

\* SetTracker "Complete Set": handleComplete, completeSet, and the render
HandleComplete(reps, weight) ==
  /\ Ready
  /\ TrackerEnabled
  /\ IF InvalidInput(reps, weight)
     THEN /\ last' = [Hist("completeSet", TRUE, FALSE, "")
                         EXCEPT !.args = <<reps, weight>>]
          /\ UNCHANGED <<dbWorkout, snapshot, inflight, mounted, workout, session, currentTimer, restTime,
                         isWorkoutPaused, pending, completedOk,
                         exitSession, faults>>
     ELSE LET currentSet == GetCurrentSet(workout, session)
              exercise == GetCurrentExercise(workout, session)
              updated == RecordCompleted(session.completedSets, currentSet,
                                         reps, weight)
              rest == session.currentSetIndex < Len(exercise.sets) - 1
              move == MoveToNextExercise(workout, session)
              recorded == [session EXCEPT !.completedSets = updated]
              sess == IF rest THEN recorded ELSE ApplyTag(move.tag, recorded)
              complete == ~rest /\ move.complete
          IN /\ CanSave
             /\ complete => CanComplete
             /\ session' = sess
             /\ restTime' = IF rest THEN currentSet.restTime ELSE restTime
             /\ currentTimer' = IF rest THEN "rest"
                                ELSE IF complete THEN currentTimer ELSE "null"
             /\ \E ops \in CompleteOps(session, complete) :
                  SaveProgress(workout, sess, ops)
             /\ last' = [Hist("completeSet", FALSE, complete, "Set completed!")
                            EXCEPT !.args = <<reps, weight>>]
             /\ UNCHANGED <<dbWorkout, mounted, workout,
                            isWorkoutPaused, pending, completedOk, exitSession>>
  /\ UNCHANGED <<timer, stats, calc, store>>

\* the rest Timer reaches 0 and calls handleRestComplete from its effect; the
\* executor's updates wait for the next render
RestComplete ==
  /\ Ready
  /\ currentTimer = "rest"
  /\ ~isWorkoutPaused
  /\ \A i \in DOMAIN pending : pending[i] = "unmount"
  /\ LET move == MoveToNextSet(workout, session)
     IN /\ move.complete => CanComplete
        /\ pending' = Append(pending, move.tag)
        /\ \E ops \in CompleteOps(session, move.complete) :
             inflight' = inflight \o ops
        /\ last' = Hist("restComplete", FALSE, move.complete, MoveToast(move))
  /\ UNCHANGED <<dbWorkout, snapshot, mounted, workout, session,
                 currentTimer, restTime, isWorkoutPaused, completedOk,
                 exitSession>>
  /\ UNCHANGED <<faults, timer, stats, calc, store>>

\* "Skip Rest" button: skipRest, and the render
SkipRest ==
  /\ Ready
  /\ currentTimer = "rest"
  /\ LET move == MoveToNextSet(workout, session)
         sess == ApplyTag(move.tag, session)
     IN /\ move.complete => CanComplete
        /\ SetsSession(move.tag) => CanSave
        /\ session' = sess
        /\ \E ops \in CompleteOps(session, move.complete) :
             IF SetsSession(move.tag)
               THEN SaveProgress(workout, sess, ops)
               ELSE /\ UNCHANGED <<snapshot, faults>>
                    /\ inflight' = inflight \o ops
        /\ last' = Hist("skipRest", FALSE, move.complete, MoveToast(move))
  /\ currentTimer' = "null"
  /\ UNCHANGED <<dbWorkout, mounted, workout, restTime,
                 isWorkoutPaused, pending, completedOk, exitSession>>
  /\ UNCHANGED <<timer, stats, calc, store>>

\* the component is removed: its state is gone, queued updates are dropped
Unmounted ==
  /\ mounted' = FALSE
  /\ workout' = Null
  /\ session' = Null
  /\ currentTimer' = "null"
  /\ restTime' = 0
  /\ isWorkoutPaused' = FALSE
  /\ pending' = <<>>

\* React renders the queued updates; the session-change effect saves
Render ==
  /\ mounted
  /\ pending # <<>>
  /\ IF \E i \in DOMAIN pending : pending[i] = "unmount"
     THEN /\ Unmounted
          /\ last' = Hist("unmount", FALSE, FALSE, "")
          /\ UNCHANGED <<snapshot, inflight, faults>>
     ELSE LET sess == ApplyAll(pending, session)
              changed == \E i \in DOMAIN pending : SetsSession(pending[i])
          IN /\ changed => CanSave
             /\ session' = sess
             /\ currentTimer' = "null"
             /\ pending' = <<>>
             /\ IF changed THEN SaveProgress(workout, sess, <<>>)
                           ELSE UNCHANGED <<snapshot, inflight, faults>>
             /\ last' = Hist("other", FALSE, FALSE, "")
             /\ UNCHANGED <<mounted, workout, restTime, isWorkoutPaused>>
  /\ UNCHANGED <<dbWorkout, completedOk, exitSession>>
  /\ UNCHANGED <<timer, stats, calc, store>>

\* "Pause" button
PauseWorkout ==
  /\ Ready
  /\ ~isWorkoutPaused
  /\ CanSave
  /\ isWorkoutPaused' = TRUE
  /\ session' = [session EXCEPT !.isPaused = TRUE]
  /\ SaveProgress(workout, session', <<>>)
  /\ last' = Hist("other", FALSE, FALSE, "")
  /\ UNCHANGED <<dbWorkout, mounted, workout, currentTimer,
                 restTime, pending, completedOk, exitSession>>
  /\ UNCHANGED <<timer, stats, calc, store>>

\* resume that also ends the rest, as skipRest does
ResumeWorkoutEndingRest ==
  /\ Ready
  /\ isWorkoutPaused
  /\ CanSave
  /\ isWorkoutPaused' = FALSE
  /\ session' = [ApplyTag(MoveToNextSet(workout, session).tag, session)
                   EXCEPT !.isPaused = FALSE]
  /\ SaveProgress(workout, session', <<>>)
  /\ last' = Hist("other", FALSE, FALSE, "")
  /\ UNCHANGED <<dbWorkout, mounted, workout, currentTimer,
                 restTime, pending, completedOk, exitSession>>
  /\ UNCHANGED <<timer, stats, calc, store>>

\* "Resume" button
ResumeWorkout ==
  /\ Ready
  /\ isWorkoutPaused
  /\ CanSave
  /\ isWorkoutPaused' = FALSE
  /\ session' = [session EXCEPT !.isPaused = FALSE]
  /\ SaveProgress(workout, session', <<>>)
  /\ last' = Hist("other", FALSE, FALSE, "")
  /\ UNCHANGED <<dbWorkout, mounted, workout, currentTimer,
                 restTime, pending, completedOk, exitSession>>
  /\ UNCHANGED <<timer, stats, calc, store>>

\* the notes textarea changes
EditNotes(text) ==
  /\ Ready
  /\ text # session.notes
  /\ CanSave
  /\ session' = [session EXCEPT !.notes = text]
  /\ SaveProgress(workout, session', <<>>)
  /\ last' = Hist("other", FALSE, FALSE, "")
  /\ UNCHANGED <<dbWorkout, mounted, workout, currentTimer,
                 restTime, isWorkoutPaused, pending, completedOk,
                 exitSession>>
  /\ UNCHANGED <<timer, stats, calc, store>>

\* "Finish Workout" button: completeWorkout up to its await
FinishWorkout ==
  /\ Ready
  /\ FinishVisible(workout, session)
  /\ CanComplete
  /\ \E ops \in CompleteOps(session, TRUE) : inflight' = inflight \o ops
  /\ last' = Hist("finish", FALSE, TRUE, "")
  /\ UNCHANGED <<dbWorkout, snapshot, mounted, workout, session,
                 currentTimer, restTime, isWorkoutPaused, pending,
                 completedOk, exitSession>>
  /\ UNCHANGED <<faults, timer, stats, calc, store>>

\* "Exit" button: the page unmounts the executor
Exit ==
  /\ Ready
  /\ Unmounted
  /\ exitSession' = session
  /\ last' = Hist("exit", FALSE, FALSE, "")
  /\ UNCHANGED <<dbWorkout, snapshot, inflight, completedOk>>
  /\ UNCHANGED <<faults, timer, stats, calc, store>>

\* The store settles its updates in the order they were issued.
\* a store update issued by saveProgress succeeds
SaveResolved ==
  /\ inflight # <<>>
  /\ Head(inflight).kind = "save"
  /\ dbWorkout' = [dbWorkout EXCEPT !.exercises = Head(inflight).exercises,
                                    !.notes = Head(inflight).notes]
  /\ inflight' = Tail(inflight)
  /\ UNCHANGED <<snapshot, mounted, workout, session, currentTimer,
                 restTime, isWorkoutPaused, pending, last, completedOk,
                 exitSession>>
  /\ UNCHANGED <<faults, timer, stats, calc, store>>

\* completeWorkout after its await: the store update succeeded
CompleteResolved ==
  /\ inflight # <<>>
  /\ Head(inflight).kind = "complete"
  /\ dbWorkout' = [dbWorkout EXCEPT !.duration = Head(inflight).duration,
                                    !.completedAt = Head(inflight).completedAt,
                                    !.notes = Head(inflight).notes]
  /\ inflight' = Tail(inflight)
  /\ snapshot' = Null
  /\ pending' = IF mounted /\ \A j \in DOMAIN pending : pending[j] # "unmount"
                  THEN Append(pending, "unmount") ELSE pending
  /\ completedOk' = TRUE
  /\ last' = Hist("completed", FALSE, FALSE, "Workout completed!")
  /\ UNCHANGED <<mounted, workout, session, currentTimer, restTime,
                 isWorkoutPaused, exitSession>>
  /\ UNCHANGED <<faults, timer, stats, calc, store>>

\* completeWorkout after its await: the store update failed
CompleteFailed ==
  /\ inflight # <<>>
  /\ Head(inflight).kind = "complete"
  /\ inflight' = Tail(inflight)
  /\ last' = Hist("completeFailed", FALSE, FALSE, "Failed to save workout completion")
  /\ UNCHANGED <<dbWorkout, snapshot, mounted, workout, session,
                 currentTimer, restTime, isWorkoutPaused, pending, completedOk,
                 exitSession>>
  /\ UNCHANGED <<faults, timer, stats, calc, store>>

Next ==
  \/ \E kind \in SnapshotInputs : ForeignSnapshot(kind)
  \/ \E now \in ClockInputs : Start(now)
  \/ AutoSaveTick
  \/ \E in \in SetInputs : HandleComplete(in[1], in[2])
  \/ RestComplete
  \/ SkipRest
  \/ Render
  \/ PauseWorkout
  \/ ResumeWorkout
  \/ \E text \in NoteInputs : EditNotes(text)
  \/ FinishWorkout
  \/ Exit
  \/ SaveResolved
  \/ CompleteResolved
  \/ CompleteFailed

Spec == Init /\ [][Next]_vars

\* ---- the session when persistence writes can fail ----
\* a failed store update that ends the session, as a failed load does
SaveFailedExiting ==
  /\ faults > 0
  /\ faults' = faults - 1
  /\ inflight # <<>>
  /\ Head(inflight).kind = "save"
  /\ inflight' = Tail(inflight)
  /\ Unmounted
  /\ UNCHANGED <<dbWorkout, snapshot, last, completedOk, exitSession>>
  /\ UNCHANGED <<timer, stats, calc, store>>

\* a store update issued by saveProgress fails: the rejection is caught and
\* logged with console.warn
SaveFailed ==
  /\ faults > 0
  /\ faults' = faults - 1
  /\ inflight # <<>>
  /\ Head(inflight).kind = "save"
  /\ inflight' = Tail(inflight)
  /\ UNCHANGED <<dbWorkout, snapshot, mounted, workout, session, currentTimer,
                 restTime, isWorkoutPaused, pending, last, completedOk,
                 exitSession>>
  /\ UNCHANGED <<timer, stats, calc, store>>

FailInit ==
  /\ ExecInit
  /\ SumSets(dbWorkout.exercises) <= MaxFailSets
  /\ faults = MaxFaults

FailNext ==
  \/ Next
  \/ SaveFailed

FailSpec == FailInit /\ [][FailNext]_vars

\* ---- a fresh session run to its end ----
\* the workout has an exercise (and every exercise has a set); nothing is
\* stored under the snapshot key
LiveInit ==
  /\ Init
  /\ dbWorkout.exercises # <<>>

\* the user records the current set with valid values
CompleteCurrentSet ==
  \E in \in SetInputs :
    /\ ~InvalidInput(in[1], in[2])
    /\ HandleComplete(in[1], in[2])

LiveNext ==
  \/ \E now \in ClockInputs : Start(now)
  \/ CompleteCurrentSet
  \/ RestComplete
  \/ SkipRest
  \/ Render
  \/ SaveResolved
  \/ CompleteResolved

\* the page mounts the executor, the user keeps recording the current set,
\* a running rest ends (the timer runs out or the user skips it), React
\* renders what is queued and the store settles what it was sent
LiveSpec ==
  /\ LiveInit
  /\ [][LiveNext]_vars
  /\ WF_vars(\E now \in ClockInputs : Start(now))
  /\ WF_vars(CompleteCurrentSet)
  /\ WF_vars(RestComplete \/ SkipRest)
  /\ WF_vars(Render)
  /\ WF_vars(SaveResolved)
  /\ WF_vars(CompleteResolved)

execVars == <<dbWorkout, snapshot, inflight, mounted, workout, session,
              currentTimer, restTime, isWorkoutPaused, pending, last,
              completedOk, exitSession, faults>>

\* no session is being executed
ExecIdle ==
  /\ dbWorkout = NewWorkout(<<>>)
  /\ snapshot = Null
  /\ inflight = <<>>
  /\ mounted = FALSE
  /\ workout = Null
  /\ session = Null
  /\ currentTimer = "null"
  /\ restTime = 0
  /\ isWorkoutPaused = FALSE
  /\ pending = <<>>
  /\ last = Hist("init", FALSE, FALSE, "")
  /\ completedOk = FALSE
  /\ exitSession = Null
  /\ faults = 0

\* ---- the Timer component (time in seconds) ----
MaxCompletions == 2    \* completions of a timer since its state was last reset
MaxRemaining == 60     \* largest timeRemaining followed

TimeInputs == {0, 2, 3}       \* the initialTime prop
AddTimeInputs == {-10, 10}    \* the -10s and +10s buttons
MinuteInputs == {-1, 0, 1}    \* what can be entered in the "Set time" field

\* what the completion side effects can do
CompletionEnvs ==
  [sound : {"ok", "throws"},
   notification : {"unavailable", "ok", "throws"},
   vibration : {"unsupported", "ok", "throws"}]

\* useState initial value
MountState(initialTime, isActive, autoStart) ==
  [timeRemaining |-> initialTime, isRunning |-> autoStart /\ isActive,
   isPaused |-> FALSE, hasStarted |-> autoStart]

\* the updater of the interval callback
TickState(prev) ==
  LET newTime == prev.timeRemaining - 1 IN
  IF newTime <= 0
    THEN [prev EXCEPT !.timeRemaining = 0, !.isRunning = FALSE]
    ELSE [prev EXCEPT !.timeRemaining = newTime]

\* the updater of the effect on [initialTime, autoStart, isActive]
PropsState(prev, initialTime, isActive, autoStart) ==
  [prev EXCEPT !.timeRemaining = initialTime,
               !.isRunning = autoStart /\ isActive,
               !.isPaused = FALSE, !.hasStarted = autoStart]

HandleStartState(prev) ==
  [prev EXCEPT !.isRunning = TRUE, !.isPaused = FALSE, !.hasStarted = TRUE]

HandlePauseState(prev) == [prev EXCEPT !.isRunning = FALSE, !.isPaused = TRUE]

HandleResetState(initialTime) ==
  [timeRemaining |-> initialTime, isRunning |-> FALSE, isPaused |-> FALSE,
   hasStarted |-> FALSE]

Max(a, b) == IF a >= b THEN a ELSE b

HandleAddTimeState(prev, seconds) ==
  [prev EXCEPT !.timeRemaining = Max(0, prev.timeRemaining + seconds)]

\* onChange of the "Set time" field: parseInt(value) || 0 minutes
CustomTimeState(prev, minutes) == [prev EXCEPT !.timeRemaining = minutes * 60]

\* a step made inside try / catch: whatever it does, execution goes on
Caught(outcome) == TRUE

\* a step made outside any try: a throw ends the handler
Uncaught(outcome) == outcome # "throws"

\* handleTimerComplete with the completion sound played outside the try
HandleTimerCompleteBareSound(env) ==
  [called |-> /\ Uncaught(env.sound)
              /\ Caught(env.notification)
              /\ Caught(env.vibration),
   threw |-> "throws" \in {env.sound, env.notification, env.vibration}]

\* handleTimerComplete: sound, notification and vibration, then onComplete
HandleTimerComplete(env) ==
  [called |-> /\ Caught(env.sound)
              /\ Caught(env.notification)
              /\ Caught(env.vibration),
   threw |-> "throws" \in {env.sound, env.notification, env.vibration}]

\* the completion effect runs: timeRemaining or hasStarted changed in this
\* render (or this is the mount) and the timer is at 0 and has started
Completes(before, after) ==
  /\ after.timeRemaining = 0
  /\ after.hasStarted
  /\ \/ before = Null
     \/ before.timeRemaining # after.timeRemaining
     \/ before.hasStarted # after.hasStarted

TimerStateOf(t) ==
  [timeRemaining |-> t.timeRemaining, isRunning |-> t.isRunning,
   isPaused |-> t.isPaused, hasStarted |-> t.hasStarted]

\* the render after a state update and the completion effect; `base` carries
\* the props and the history, `before` is the state the render replaces
Commit(base, before, st, op, env) ==
  LET fire == Completes(before, st)
      out == HandleTimerComplete(env)
  IN [base EXCEPT !.timeRemaining = st.timeRemaining,
                  !.isRunning = st.isRunning,
                  !.isPaused = st.isPaused,
                  !.hasStarted = st.hasStarted,
                  !.op = op,
                  !.completions = IF fire THEN @ + 1 ELSE @,
                  !.fired = IF fire /\ out.called THEN @ + 1 ELSE @,
                  !.threw = IF fire THEN out.threw ELSE @]

\* the next state is within the bounds followed
Followed(before, st) ==
  /\ st.timeRemaining <= MaxRemaining
  /\ Completes(before, st) => before = Null \/ timer.completions < MaxCompletions

\* the start button is rendered
StartVisible(t) == ~t.hasStarted \/ (t.isPaused /\ t.timeRemaining > 0)

TimerInit ==
  /\ ExecIdle
  /\ timer = Null
  /\ stats = Null
  /\ calc = Null
  /\ store = Null

\* the component mounts with its props
TimerMount(initialTime, isActive, autoStart, env) ==
  /\ timer = Null
  /\ LET st == MountState(initialTime, isActive, autoStart)
         base == [initialTime |-> initialTime, isActive |-> isActive,
                  autoStart |-> autoStart, timeRemaining |-> 0,
                  isRunning |-> FALSE, isPaused |-> FALSE,
                  hasStarted |-> FALSE, op |-> "mount", completions |-> 0,
                  fired |-> 0, threw |-> FALSE, reset |-> FALSE]
     IN timer' = Commit(base, Null, st, "mount", env)
  /\ UNCHANGED <<execVars, stats, calc, store>>

\* the interval fires
TimerTick(env) ==
  /\ timer # Null
  /\ timer.isRunning /\ timer.isActive /\ timer.timeRemaining > 0
  /\ LET before == TimerStateOf(timer)
         st == TickState(before)
     IN /\ Followed(before, st)
        /\ timer' = Commit(timer, before, st, "tick", env)
  /\ UNCHANGED <<execVars, stats, calc, store>>

\* the parent renders the timer with another isActive (workout paused or
\* resumed)
TimerSetActive(isActive, env) ==
  /\ timer # Null
  /\ isActive # timer.isActive
  /\ LET before == TimerStateOf(timer)
         st == PropsState(before, timer.initialTime, isActive, timer.autoStart)
         base == [timer EXCEPT !.isActive = isActive, !.completions = 0,
                               !.fired = 0]
     IN timer' = Commit(base, before, st, "props", env)
  /\ UNCHANGED <<execVars, stats, calc, store>>

\* "Start" / "Resume" button of the timer
TimerStart(env) ==
  /\ timer # Null
  /\ StartVisible(timer)
  /\ LET before == TimerStateOf(timer)
         st == HandleStartState(before)
     IN /\ Followed(before, st)
        /\ timer' = Commit([timer EXCEPT !.reset = FALSE], before, st,
                           "start", env)
  /\ UNCHANGED <<execVars, stats, calc, store>>

\* "Pause" button of the timer
TimerPause(env) ==
  /\ timer # Null
  /\ ~StartVisible(timer)
  /\ timer.isRunning
  /\ LET before == TimerStateOf(timer)
     IN timer' = Commit(timer, before, HandlePauseState(before), "pause", env)
  /\ UNCHANGED <<execVars, stats, calc, store>>

\* "Reset" button of the timer
TimerReset(env) ==
  /\ timer # Null
  /\ LET before == TimerStateOf(timer)
         base == [timer EXCEPT !.completions = 0, !.fired = 0,
                               !.reset = TRUE]
     IN timer' = Commit(base, before, HandleResetState(timer.initialTime),
                        "reset", env)
  /\ UNCHANGED <<execVars, stats, calc, store>>

\* "-10s" / "+10s" buttons
TimerAddTime(seconds, env) ==
  /\ timer # Null
  /\ LET before == TimerStateOf(timer)
         st == HandleAddTimeState(before, seconds)
     IN /\ Followed(before, st)
        /\ timer' = Commit(timer, before, st, "addTime", env)
  /\ UNCHANGED <<execVars, stats, calc, store>>

\* the "Set time" field, rendered while the timer is not running
TimerCustomTime(minutes, env) ==
  /\ timer # Null
  /\ ~timer.isRunning
  /\ LET before == TimerStateOf(timer)
         st == CustomTimeState(before, minutes)
     IN /\ Followed(before, st)
        /\ timer' = Commit(timer, before, st, "customTime", env)
  /\ UNCHANGED <<execVars, stats, calc, store>>

TimerNext ==
  \/ \E initialTime \in TimeInputs, isActive \in BOOLEAN, autoStart \in BOOLEAN,
        env \in CompletionEnvs :
        TimerMount(initialTime, isActive, autoStart, env)
  \/ \E env \in CompletionEnvs : TimerTick(env)
  \/ \E isActive \in BOOLEAN, env \in CompletionEnvs : TimerSetActive(isActive, env)
  \/ \E env \in CompletionEnvs : TimerStart(env)
  \/ \E env \in CompletionEnvs : TimerPause(env)
  \/ \E env \in CompletionEnvs : TimerReset(env)
  \/ \E seconds \in AddTimeInputs, env \in CompletionEnvs :
        TimerAddTime(seconds, env)
  \/ \E minutes \in MinuteInputs, env \in CompletionEnvs :
        TimerCustomTime(minutes, env)

TimerSpec == TimerInit /\ [][TimerNext]_vars

\* ---- analytics: calculateDashboardStats (time in hours) ----
MaxWorkouts == 3    \* workouts in the history given to the function

Today == 9          \* the local day new Date() falls in; days are numbered
ShortDay == 8       \* the local day that has 23 hours (clocks go forward)
FirstSunday == 1    \* the first local day on which getDay() is 0
UtcOffset == 5      \* UTC hour of the day at local midnight of day 0

DayHours(d) == IF d = ShortDay THEN 23 ELSE 24

\* timestamp of local midnight at the start of day d
RECURSIVE Midnight(_)
Midnight(d) == IF d <= 0 THEN 0 ELSE Midnight(d - 1) + DayHours(d - 1)

\* a day has 23 or 24 hours: the day is ts \div 24 or the one after it
LocalDayOf(ts) ==
  CHOOSE d \in {ts \div 24, ts \div 24 + 1} :
     Midnight(d) <= ts /\ ts < Midnight(d + 1)

\* date.setHours(0, 0, 0, 0)
MidnightOf(ts) == Midnight(LocalDayOf(ts))

\* date.setDate(date.getDate() - 1), on a local midnight
PreviousDay(ts) == Midnight(LocalDayOf(ts) - 1)

\* what new Date() can return inside the function
NowInputs == {Midnight(Today), Midnight(Today) + 12}

DateInputs ==
  {Midnight(d) : d \in (Today - 3)..Today} \cup
  {Midnight(Today) + 12, Midnight(Today - 1) + 22}

StatsSet(actualWeight, actualReps) ==
  [targetWeight |-> 3, targetReps |-> 2,
   actualWeight |-> actualWeight, actualReps |-> actualReps]

\* sets as the executor leaves them: nothing recorded, or recorded values
\* (weight 0 is a valid recorded weight)
StatsSetInputs ==
  {StatsSet(w, r) : w \in {{}, {0}, {5}}, r \in {{}, {0}, {4}}}

StatsExercise(exerciseType, sets) ==
  [exerciseType |-> exerciseType, sets |-> sets]

ExerciseInputs ==
  {<<>>} \cup
  {<<StatsExercise("swing", <<set>>)>> : set \in StatsSetInputs} \cup
  {<<StatsExercise("swing", <<set, StatsSet({5}, {4})>>),
     StatsExercise("press", <<StatsSet({}, {})>>)>> :
     set \in {StatsSet({}, {}), StatsSet({0}, {4}), StatsSet({5}, {0})}}

\* the exerciseTypes argument: the ids of the catalog, in its order
Catalog == <<"swing", "press", "squat", "carry">>

TimedWorkout(date, duration, exercises) ==
  [id |-> 0, date |-> date, duration |-> duration, exercises |-> exercises]

StatsWorkout(date, exercises) == TimedWorkout(date, 30, exercises)

\* the records of a list are distinct records of the store: distinct ids
WithIds(ws) == [i \in DOMAIN ws |-> [ws[i] EXCEPT !.id = i]]

WorkoutInputs ==
  {StatsWorkout(date, <<StatsExercise("swing", <<StatsSet({5}, {4})>>)>>) :
     date \in DateInputs} \cup
  {StatsWorkout(Midnight(Today) + 12, exs) : exs \in ExerciseInputs}

Histories == UNION {[1..n -> WorkoutInputs] : n \in 0..MaxWorkouts}

\* the sort with the comparator a - b: oldest first
RECURSIVE SortByDateAscending(_)
SortByDateAscending(ws) ==
  IF ws = <<>> THEN <<>>
  ELSE LET rest == SortByDateAscending(Tail(ws))
           older == SelectSeq(rest, LAMBDA w : w.date < Head(ws).date)
           newer == SelectSeq(rest, LAMBDA w : w.date >= Head(ws).date)
       IN older \o <<Head(ws)>> \o newer

\* workouts.sort((a, b) => b.date.getTime() - a.date.getTime()): stable,
\* most recent first, in place
RECURSIVE SortByDate(_)
SortByDate(ws) ==
  IF ws = <<>> THEN <<>>
  ELSE LET rest == SortByDate(Tail(ws))
           newer == SelectSeq(rest, LAMBDA w : w.date > Head(ws).date)
           older == SelectSeq(rest, LAMBDA w : w.date <= Head(ws).date)
       IN newer \o <<Head(ws)>> \o older

\* a || b on an optional number: undefined and 0 are both falsy
OrElse(optional, fallback) ==
  IF optional = {} \/ optional = {0} THEN fallback
  ELSE CHOOSE v \in optional : TRUE

SetVolume(set) ==
  OrElse(set.actualWeight, set.targetWeight) *
  OrElse(set.actualReps, set.targetReps)

\* exercise.sets.reduce((setSum, set) => setSum + weight * reps, 0)
RECURSIVE ExerciseVolume(_)
ExerciseVolume(sets) ==
  IF sets = <<>> THEN 0 ELSE SetVolume(Head(sets)) + ExerciseVolume(Tail(sets))

\* workout.exercises.reduce((exerciseSum, exercise) => ..., 0)
RECURSIVE WorkoutVolume(_)
WorkoutVolume(exercises) ==
  IF exercises = <<>> THEN 0
  ELSE ExerciseVolume(Head(exercises).sets) + WorkoutVolume(Tail(exercises))

\* workouts.reduce((sum, workout) => ..., 0)
RECURSIVE TotalVolume(_)
TotalVolume(workouts) ==
  IF workouts = <<>> THEN 0
  ELSE WorkoutVolume(Head(workouts).exercises) + TotalVolume(Tail(workouts))

\* the while loop: days counted back from currentDate while each is present
RECURSIVE CountBack(_, _)
CountBack(currentDate, workoutDates) ==
  IF currentDate \in workoutDates
    THEN 1 + CountBack(PreviousDay(currentDate), workoutDates)
    ELSE 0

CalculateWorkoutStreak(sortedWorkouts, now) ==
  IF sortedWorkouts = <<>> THEN 0
  ELSE LET today == MidnightOf(now)
           mostRecentDate == MidnightOf(sortedWorkouts[1].date)
           daysSinceLastWorkout == (today - mostRecentDate) \div 24
           workoutDates == {MidnightOf(sortedWorkouts[i].date) :
                              i \in DOMAIN sortedWorkouts}
           currentDate == IF today \in workoutDates THEN today
                          ELSE PreviousDay(today)
       IN IF daysSinceLastWorkout > 1 THEN 0
          ELSE CountBack(currentDate, workoutDates)

RECURSIVE GCD(_, _)
GCD(a, b) == IF b = 0 THEN a ELSE GCD(b, a % b)

\* the number a / b for a >= 0 and b > 0, as <<numerator, denominator>> in
\* lowest terms
Quotient(a, b) == LET g == GCD(a, b) IN <<a \div g, b \div g>>

\* workouts.reduce((sum, w) => sum + (w.duration || 0), 0)
RECURSIVE TotalDuration(_)
TotalDuration(workouts) ==
  IF workouts = <<>> THEN 0
  ELSE Head(workouts).duration + TotalDuration(Tail(workouts))

\* the average taken as a whole number of minutes
AverageWorkoutDurationWhole(workouts) ==
  IF Len(workouts) > 0
    THEN <<TotalDuration(workouts) \div Len(workouts), 1>>
    ELSE <<0, 1>>

\* totalWorkouts > 0 ? totalDuration / totalWorkouts : 0
AverageWorkoutDuration(workouts) ==
  IF Len(workouts) > 0
    THEN Quotient(TotalDuration(workouts), Len(workouts))
    ELSE <<0, 1>>

\* ---- calculatePersonalRecords ----
TopRecords == 10

NoRecords == [maxWeight |-> Null, maxReps |-> Null, maxVolume |-> Null]

\* the record object built in each of the three checks (exerciseName, which
\* is looked up from exerciseId, is left out)
PersonalRecord(exercise, kind, value, wk) ==
  [exerciseId |-> exercise.exerciseType, type |-> kind, value |-> value,
   date |-> wk.date, workoutId |-> wk.id]

\* !record || value > record.value
Beats(value, record) == record = Null \/ value > record.value

\* the body of exercise.sets.forEach
CheckSet(exerciseRecords, set, exercise, wk) ==
  LET weight == OrElse(set.actualWeight, set.targetWeight)
      reps == OrElse(set.actualReps, set.targetReps)
      volume == weight * reps
  IN [maxWeight |->
        IF Beats(weight, exerciseRecords.maxWeight)
          THEN PersonalRecord(exercise, "maxWeight", weight, wk)
          ELSE exerciseRecords.maxWeight,
      maxReps |->
        IF Beats(reps, exerciseRecords.maxReps)
          THEN PersonalRecord(exercise, "maxReps", reps, wk)
          ELSE exerciseRecords.maxReps,
      maxVolume |->
        IF Beats(volume, exerciseRecords.maxVolume)
          THEN PersonalRecord(exercise, "maxVolume", volume, wk)
          ELSE exerciseRecords.maxVolume]

RECURSIVE ScanSets(_, _, _, _)
ScanSets(exerciseRecords, sets, exercise, wk) ==
  IF sets = <<>> THEN exerciseRecords
  ELSE ScanSets(CheckSet(exerciseRecords, Head(sets), exercise, wk),
                Tail(sets), exercise, wk)

\* workout.exercises.forEach: an exercise whose type is not in the catalog
\* is passed over
RECURSIVE ScanExercises(_, _, _)
ScanExercises(records, exercises, wk) ==
  IF exercises = <<>> THEN records
  ELSE LET exercise == Head(exercises)
           id == exercise.exerciseType
           scanned ==
             IF id \in DOMAIN records
               THEN [records EXCEPT
                       ![id] = ScanSets(@, exercise.sets, exercise, wk)]
               ELSE records
       IN ScanExercises(scanned, Tail(exercises), wk)

\* workouts.forEach
RECURSIVE ScanWorkouts(_, _)
ScanWorkouts(records, workouts) ==
  IF workouts = <<>> THEN records
  ELSE ScanWorkouts(ScanExercises(records, Head(workouts).exercises,
                                  Head(workouts)),
                    Tail(workouts))

\* records.forEach + Object.values: catalog order, then maxWeight, maxReps,
\* maxVolume, the missing ones left out
RECURSIVE AllRecords(_, _)
AllRecords(records, exerciseTypes) ==
  IF exerciseTypes = <<>> THEN <<>>
  ELSE LET exerciseRecords == records[Head(exerciseTypes)]
       IN SelectSeq(<<exerciseRecords.maxWeight, exerciseRecords.maxReps,
                      exerciseRecords.maxVolume>>,
                    LAMBDA record : record # Null)
          \o AllRecords(records, Tail(exerciseTypes))

\* the sort with the comparator a.value - b.value: lowest value first
RECURSIVE SortByValueAscending(_)
SortByValueAscending(rs) ==
  IF rs = <<>> THEN <<>>
  ELSE LET rest == SortByValueAscending(Tail(rs))
           lower == SelectSeq(rest, LAMBDA r : r.value < Head(rs).value)
           higher == SelectSeq(rest, LAMBDA r : r.value >= Head(rs).value)
       IN lower \o <<Head(rs)>> \o higher

\* allRecords.sort((a, b) => b.value - a.value): stable, highest value first
RECURSIVE SortByValue(_)
SortByValue(rs) ==
  IF rs = <<>> THEN <<>>
  ELSE LET rest == SortByValue(Tail(rs))
           higher == SelectSeq(rest, LAMBDA r : r.value > Head(rs).value)
           lower == SelectSeq(rest, LAMBDA r : r.value <= Head(rs).value)
       IN higher \o <<Head(rs)>> \o lower

\* array.slice(0, count)
Slice(array, count) ==
  SubSeq(array, 1, IF Len(array) < count THEN Len(array) ELSE count)

CalculatePersonalRecords(workouts, exerciseTypes) ==
  LET ids == {exerciseTypes[i] : i \in DOMAIN exerciseTypes}
      records == ScanWorkouts([id \in ids |-> NoRecords], workouts)
  IN Slice(SortByValue(AllRecords(records, exerciseTypes)), TopRecords)

\* ---- calculateWeeklyProgress ----
\* date.getDay(): 0 is Sunday
WeekdayOf(d) == (d - FirstSunday) % 7

\* each day its own week start: setHours(0, 0, 0, 0) alone
GetWeekStartOfDay(date) == Midnight(LocalDayOf(date))

\* setDate(getDate() - getDay()), then setHours(0, 0, 0, 0): the local
\* midnight that begins the Sunday on or before the date
GetWeekStart(date) ==
  LET d == LocalDayOf(date) IN Midnight(d - WeekdayOf(d))

\* weekStart.toISOString().split('T')[0]: the UTC calendar day of the instant
WeekKey(weekStart) == (weekStart + UtcOffset) \div 24

\* a bucket that keeps only the workout added last
AddToWeekReplacing(weeklyData, wk) ==
  LET weekStart == GetWeekStart(wk.date)
      weekKey == WeekKey(weekStart)
      entry == [key |-> weekKey, totalVolume |-> WorkoutVolume(wk.exercises),
                workoutCount |-> 1, totalDuration |-> wk.duration,
                date |-> weekStart]
  IN IF \E i \in DOMAIN weeklyData : weeklyData[i].key = weekKey
       THEN [i \in DOMAIN weeklyData |->
               IF weeklyData[i].key = weekKey THEN entry ELSE weeklyData[i]]
       ELSE Append(weeklyData, entry)

\* the body of workouts.forEach: weeklyData is the Map, in insertion order
AddToWeek(weeklyData, wk) ==
  LET weekStart == GetWeekStart(wk.date)
      weekKey == WeekKey(weekStart)
      has == \E i \in DOMAIN weeklyData : weeklyData[i].key = weekKey
      data == IF has THEN weeklyData
              ELSE Append(weeklyData,
                          [key |-> weekKey, totalVolume |-> 0,
                           workoutCount |-> 0, totalDuration |-> 0,
                           date |-> weekStart])
  IN [i \in DOMAIN data |->
        IF data[i].key = weekKey
          THEN [data[i] EXCEPT
                  !.workoutCount = @ + 1,
                  !.totalDuration = @ + wk.duration,
                  !.totalVolume = @ + WorkoutVolume(wk.exercises)]
          ELSE data[i]]

RECURSIVE WeeklyData(_, _)
WeeklyData(weeklyData, workouts) ==
  IF workouts = <<>> THEN weeklyData
  ELSE WeeklyData(AddToWeek(weeklyData, Head(workouts)), Tail(workouts))

\* "Mon D - Mon D": the local day of the week start and the day 6 days on
FormatWeekLabel(weekStart) ==
  <<LocalDayOf(weekStart), LocalDayOf(weekStart) + 6>>

WeeklyStats(data) ==
  [week |-> FormatWeekLabel(data.date),
   totalVolume |-> data.totalVolume,
   workoutCount |-> data.workoutCount,
   averageDuration |->
     IF data.workoutCount > 0
       THEN Quotient(data.totalDuration, data.workoutCount)
       ELSE <<0, 1>>,
   date |-> data.date]

\* weeklyStats.sort((a, b) => a.date.getTime() - b.date.getTime()): stable,
\* oldest first
RECURSIVE SortByWeek(_)
SortByWeek(weeklyStats) ==
  IF weeklyStats = <<>> THEN <<>>
  ELSE LET rest == SortByWeek(Tail(weeklyStats))
           older == SelectSeq(rest, LAMBDA week : week.date < Head(weeklyStats).date)
           newer == SelectSeq(rest, LAMBDA week : week.date >= Head(weeklyStats).date)
       IN older \o <<Head(weeklyStats)>> \o newer

CalculateWeeklyProgress(workouts) ==
  LET weeklyData == WeeklyData(<<>>, workouts)
  IN SortByWeek([i \in DOMAIN weeklyData |-> WeeklyStats(weeklyData[i])])

RecentCount == 5

StatsInit ==
  /\ ExecIdle
  /\ timer = Null
  /\ calc = Null
  /\ store = Null
  /\ \E ws \in Histories :
        stats = [given |-> WithIds(ws), workouts |-> WithIds(ws),
                 exerciseTypes |-> Catalog, now |-> 0, out |-> Null]

\* one call: the caller's array is sorted in place, the result is returned
CalculateDashboardStats(now) ==
  /\ stats # Null
  /\ stats.out = Null
  /\ LET sortedWorkouts == SortByDate(stats.workouts)
     IN stats' = [stats EXCEPT
                    !.workouts = sortedWorkouts,
                    !.now = now,
                    !.out = [totalWorkouts |-> Len(sortedWorkouts),
                             totalVolume |-> TotalVolume(sortedWorkouts),
                             averageWorkoutDuration |->
                               AverageWorkoutDuration(sortedWorkouts),
                             currentStreak |->
                               CalculateWorkoutStreak(sortedWorkouts, now),
                             personalRecords |->
                               CalculatePersonalRecords(sortedWorkouts,
                                                        stats.exerciseTypes),
                             recentWorkouts |->
                               Slice(sortedWorkouts, RecentCount),
                             weeklyProgress |->
                               CalculateWeeklyProgress(sortedWorkouts)]]
  /\ UNCHANGED <<execVars, timer, calc, store>>

StatsNext == \E now \in NowInputs : CalculateDashboardStats(now)

StatsSpec == StatsInit /\ [][StatsNext]_vars

\* ---- calculateDashboardStats on histories of several exercise types ----
\* a Sunday, a Monday and a Saturday of one week, the Sunday and the Monday
\* (today) of the next
RecordDates ==
  {Midnight(FirstSunday) + 9, Midnight(FirstSunday + 1) + 9,
   Midnight(FirstSunday + 6) + 9, Midnight(FirstSunday + 7) + 9,
   Midnight(Today)}

OneSet(exerciseType, weight, reps) ==
  StatsExercise(exerciseType, <<StatsSet({weight}, {reps})>>)

RecordWorkoutInputs ==
  {TimedWorkout(date, 30, <<OneSet("swing", 5, 4)>>) : date \in RecordDates}
  \cup
  {TimedWorkout(Midnight(FirstSunday + 1) + 9, 45,
                <<StatsExercise("swing", <<StatsSet({7}, {1}),
                                           StatsSet({2}, {9})>>)>>),
   TimedWorkout(Midnight(FirstSunday + 6) + 9, 65,
                <<StatsExercise("press", <<StatsSet({0}, {4})>>)>>),
   TimedWorkout(Midnight(Today), 45,
                <<OneSet("swing", 6, 6), OneSet("press", 5, 5),
                  OneSet("squat", 4, 4), OneSet("carry", 3, 3)>>),
   TimedWorkout(Midnight(FirstSunday + 7) + 9, 30,
                <<OneSet("custom", 9, 9)>>),
   TimedWorkout(Midnight(FirstSunday) + 9, 65, <<>>),
   TimedWorkout(Midnight(FirstSunday + 7) + 9, 65,
                <<StatsExercise("squat", <<StatsSet({}, {})>>)>>)}

RecordHistories ==
  UNION {[1..n -> RecordWorkoutInputs] : n \in 0..MaxWorkouts}

RecordsInit ==
  /\ ExecIdle
  /\ timer = Null
  /\ calc = Null
  /\ store = Null
  /\ \E ws \in RecordHistories :
        stats = [given |-> WithIds(ws), workouts |-> WithIds(ws),
                 exerciseTypes |-> Catalog, now |-> 0, out |-> Null]

RecordsSpec == RecordsInit /\ [][StatsNext]_vars

\* ---- calculateOneRepMax (whole weights and reps) ----
MaxReps == 41       \* the highest rep count given to the function

WeightInputs == {0, 16, 80, 100, 104, 243}
RepsInputs == 0..MaxReps

\* 1.0278 - (0.0278 * reps), in units of 1/10000
Brzycki(reps) == 10278 - 278 * reps

Abs(x) == IF x < 0 THEN -x ELSE x

\* the quotient n / d cut down to a whole number
TruncatedQuotients(n, d) ==
  LET num == IF d < 0 THEN -n ELSE n
  IN {num \div Abs(d)}

\* Math.round(n / d) for d # 0, that is floor(n / d + 1/2).  A quotient
\* exactly half-way between two integers is not a double in general: the
\* division may land on either side of the half, and either neighbour may be
\* returned.
RoundedQuotients(n, d) ==
  LET num == IF d < 0 THEN -n ELSE n
      den == Abs(d)
      lower == num \div den
  IN IF 2 * (num - lower * den) = den
       THEN {lower, lower + 1}
       ELSE {(2 * num + den) \div (2 * den)}

\* the values the function can return
CalculateOneRepMax(weight, reps) ==
  IF reps = 1 THEN {weight}
  ELSE RoundedQuotients(10000 * weight, Brzycki(reps))

OneRepMaxInit ==
  /\ ExecIdle
  /\ timer = Null
  /\ stats = Null
  /\ store = Null
  /\ \E weight \in WeightInputs, reps \in RepsInputs :
        calc = [weight |-> weight, reps |-> reps, out |-> {}]

\* one call
OneRepMaxCall ==
  /\ calc # Null
  /\ calc.out = {}
  /\ \E out \in CalculateOneRepMax(calc.weight, calc.reps) :
        calc' = [calc EXCEPT !.out = {out}]
  /\ UNCHANGED <<execVars, timer, stats, store>>

OneRepMaxNext == OneRepMaxCall

OneRepMaxSpec == OneRepMaxInit /\ [][OneRepMaxNext]_vars

\* ---- findPlateaus (whole metric values) ----
MaxWeeks == 5       \* entries in the weekly series given to the function

Week(totalVolume, workoutCount, averageDuration) ==
  [totalVolume |-> totalVolume, workoutCount |-> workoutCount,
   averageDuration |-> averageDuration]

WeekInputs ==
  {Week(0, 0, 0), Week(19, 1, 40), Week(21, 1, 42), Week(125, 2, 45),
   Week(150, 2, 45), Week(180, 3, 45), Week(216, 3, 45)}

Metrics == {"totalVolume", "workoutCount", "averageDuration"}

SeriesInputs == UNION {[1..n -> WeekInputs] : n \in 0..MaxWeeks}

\* weeklyStats.slice(0, 4)
RecentWeeksFirst(weeklyStats) == SubSeq(weeklyStats, 1, 4)

\* weeklyStats.slice(-4), on a series of at least 4 entries
RecentWeeks(weeklyStats) ==
  SubSeq(weeklyStats, Len(weeklyStats) - 3, Len(weeklyStats))

\* values.reduce((sum, val) => sum + val, 0)
RECURSIVE SumOf(_)
SumOf(values) ==
  IF values = <<>> THEN 0 ELSE Head(values) + SumOf(Tail(values))

\* with total the sum of the 4 values: average = total / 4, 4 (val - average)
\* = 4 val - total, so variance = spread / 64 for spread the sum of the
\* (4 val - total)^2; standardDeviation / average < 0.05 is
\* 400 variance < average^2, that is 100 spread < total^2
FindPlateaus(weeklyStats, metric) ==
  IF Len(weeklyStats) < 4 THEN FALSE
  ELSE LET recentWeeks == RecentWeeks(weeklyStats)
           values == [i \in DOMAIN recentWeeks |-> recentWeeks[i][metric]]
           total == SumOf(values)
           spread == SumOf([i \in DOMAIN values |->
                              (4 * values[i] - total) * (4 * values[i] - total)])
       IN IF total > 0 THEN 100 * spread < total * total ELSE TRUE

PlateauInit ==
  /\ ExecIdle
  /\ timer = Null
  /\ stats = Null
  /\ store = Null
  /\ \E weeklyStats \in SeriesInputs :
        calc = [weeklyStats |-> weeklyStats, metric |-> "", out |-> {}]

\* one call
FindPlateausCall(metric) ==
  /\ calc # Null
  /\ calc.out = {}
  /\ calc' = [calc EXCEPT !.metric = metric,
                          !.out = {FindPlateaus(calc.weeklyStats, metric)}]
  /\ UNCHANGED <<execVars, timer, stats, store>>

PlateauNext == \E metric \in Metrics : FindPlateausCall(metric)

PlateauSpec == PlateauInit /\ [][PlateauNext]_vars

\* ---- the Workout records of the store: templates and sessions ----
MaxRecords == 3     \* Workout records in the store

TemplateNames == {"A", "B"}
PlanInputs == {1, 2}        \* the planner form's exercises, by their number
CompletionTime == 1         \* what new Date() returns, in units of 30 s

\* the record WorkoutPlanner builds on submit
Template(templateName, exercises) ==
  [isTemplate |-> TRUE, templateName |-> {templateName},
   exercises |-> exercises, duration |-> 0, completedAt |-> {}]

\* WorkoutPlanner.onSubmit: saves a new template (existingTemplate 0), or
\* updates the template being edited with the fields of the built record,
\* which has no completedAt
OnSubmit(existingTemplate, templateName, exercises) ==
  /\ IF existingTemplate = 0
     THEN /\ Len(store) < MaxRecords
          /\ store' = Append(store, Template(templateName, exercises))
     ELSE /\ existingTemplate \in DOMAIN store
          /\ store[existingTemplate].isTemplate
          /\ store' = [store EXCEPT ![existingTemplate] =
                         [@ EXCEPT !.isTemplate = TRUE,
                                   !.templateName = {templateName},
                                   !.exercises = exercises,
                                   !.duration = 0]]
  /\ UNCHANGED <<execVars, timer, stats, calc>>

\* WorkoutTemplates.handleStartWorkout on a template of the list: a copy
\* under a new id
HandleStartWorkout(template) ==
  /\ template \in DOMAIN store
  /\ store[template].isTemplate
  /\ Len(store) < MaxRecords
  /\ store' = Append(store, [store[template] EXCEPT !.isTemplate = FALSE,
                                                    !.templateName = {}])
  /\ UNCHANGED <<execVars, timer, stats, calc>>

\* WorkoutExecutor.completeWorkout's store update, for an executor that runs
\* a session started from a template
CompleteWorkout(workoutId) ==
  /\ workoutId \in DOMAIN store
  /\ ~store[workoutId].isTemplate
  /\ store[workoutId].completedAt = {}
  /\ store' = [store EXCEPT ![workoutId] =
                 [@ EXCEPT !.duration = 1,
                           !.completedAt = {DateOf(CompletionTime)}]]
  /\ UNCHANGED <<execVars, timer, stats, calc>>

\* DatabaseOptimizations.bulkUpdateWorkoutStatus(workoutIds, completed)
BulkUpdateWorkoutStatus(workoutIds, completed) ==
  /\ workoutIds \subseteq DOMAIN store
  /\ store' = [id \in DOMAIN store |->
                 IF id \in workoutIds
                   THEN [store[id] EXCEPT !.completedAt =
                           IF completed THEN {DateOf(CompletionTime)} ELSE {}]
                   ELSE store[id]]
  /\ UNCHANGED <<execVars, timer, stats, calc>>

TemplateInit ==
  /\ ExecIdle
  /\ timer = Null
  /\ stats = Null
  /\ calc = Null
  /\ store = <<>>

TemplateNext ==
  \/ \E existingTemplate \in 0..MaxRecords, templateName \in TemplateNames,
        exercises \in PlanInputs :
        OnSubmit(existingTemplate, templateName, exercises)
  \/ \E template \in 1..MaxRecords : HandleStartWorkout(template)
  \/ \E workoutId \in 1..MaxRecords : CompleteWorkout(workoutId)
  \/ \E workoutIds \in SUBSET (1..MaxRecords), completed \in BOOLEAN :
        BulkUpdateWorkoutStatus(workoutIds, completed)

TemplateSpec == TemplateInit /\ [][TemplateNext]_vars

\* ---- vocabulary of the properties ----
Cursor(sess) == <<sess.currentExerciseIndex, sess.currentSetIndex>>

AllSetIds(w) ==
  UNION {{w.exercises[e].sets[i].id : i \in DOMAIN w.exercises[e].sets} :
           e \in DOMAIN w.exercises}

CompletedIds(sess) == {sess.completedSets[i].id : i \in DOMAIN sess.completedSets}

AllSetsCompleted(w, sess) == AllSetIds(w) \subseteq CompletedIds(sess)

\* past the last set: one past the last exercise, or one past the last set of
\* the last exercise
TerminalPosition(w, sess) ==
  \/ Cursor(sess) = <<Len(w.exercises), 0>>
  \/ /\ w.exercises # <<>>
     /\ Cursor(sess) = <<Len(w.exercises) - 1,
                         Len(w.exercises[Len(w.exercises)].sets)>>

DbSet(id) == dbWorkout.exercises[id[1] + 1].sets[id[2] + 1]

Resting == currentTimer = "rest" \/ pending # <<>>

\* a snapshot start may resume from: it parses, it is of this workout and its
\* cursor is at the start, on a set, or past the last set
WellFormedSnapshot(item, w) ==
  /\ ~ParseFails(item)
  /\ item.workoutId = w.id
  /\ \/ Cursor(item) = <<0, 0>>
     \/ GetCurrentSet(w, item) # Null
     \/ TerminalPosition(w, item)

\* C1: in every state of a session the cursor indexes an existing
\* exercise/set pair of the workout or is at the terminal past-last-set
\* position.
C1_CursorInRange ==
  Ready => \/ GetCurrentSet(workout, session) # Null
           \/ TerminalPosition(workout, session)

\* C2: outside a rest, the cursor never points at a set that is already in
\* the completed-set list (each completeSet, once its rest is over, has moved
\* the cursor on to a set not yet completed, or past the last set).
C2_CursorNeverOnCompletedSet ==
  (Ready /\ ~Resting /\ GetCurrentSet(workout, session) # Null)
    => GetCurrentSet(workout, session).id \notin CompletedIds(session)

\* C3: a session restored from a snapshot whose most recently completed set k
\* is not the last set of its exercise has its cursor on set k + 1.
C3_RestoredCursorOnNextSet ==
  (Ready /\ last.op = "restore" /\ session.completedSets # <<>>)
    => LET done == session.completedSets[Len(session.completedSets)].id
       IN done[2] < Len(workout.exercises[done[1] + 1].sets) - 1
            => Cursor(session) = <<done[1], done[2] + 1>>

\* C4: when completeWorkout has finished successfully the store's record has
\* completedAt, the elapsed minutes as duration, and every set completed in
\* the session merged into its exercises.
C4_CompletionPersisted ==
  (Ready /\ last.op = "completed")
    => /\ dbWorkout.completedAt # {}
       /\ \A at \in dbWorkout.completedAt :
            dbWorkout.duration =
              DurationMinutes(session.startTime.date, at.date)
       /\ \A i \in DOMAIN session.completedSets :
            DbSet(session.completedSets[i].id) = session.completedSets[i]

\* C5: after completeWorkout has succeeded no session snapshot exists.
C5_NoSnapshotAfterComplete == completedOk => snapshot = Null

\* C6: completeWorkout is invoked only when every set of the workout has been
\* completed.
C6_CompleteOnlyWhenFinished ==
  (Ready /\ last.complete) => AllSetsCompleted(workout, session)

\* C7 (as stated): a completeSet call with reps <= 0 or weight < 0 gives its
\* caller a failure value, something other than what a successful call returns.
C7_FailureValue ==
  (last.op = "completeSet" /\ last.rejected) => last.result # "undefined"

\* C7 (amended): a completeSet call with reps <= 0 or weight < 0 changes
\* neither the session (completed sets, cursor), nor the rest timer, nor the
\* snapshot, nor the store; it shows no toast and returns undefined.
C7_RejectedUnchanged ==
  [][(/\ last'.op = "completeSet"
      /\ last' # last
      /\ (last'.args[1] <= 0 \/ last'.args[2] < 0))
       => /\ UNCHANGED <<session, currentTimer, restTime, snapshot, inflight,
                         dbWorkout, pending>>
          /\ last'.toast = ""
          /\ last'.result = "undefined"]_vars

C7_Witness ==
  /\ last.op = "completeSet"
  /\ last.rejected
  /\ session.completedSets # <<>>

\* C8: once every set is completed, a completeSet call changes nothing in the
\* completed-set list and does not run completion again.
C8_CompleteSetWhenCompletedIsNoOp ==
  [][(Ready /\ AllSetsCompleted(workout, session) /\ Ready')
       => /\ session'.completedSets = session.completedSets
          /\ (last'.op = "completeSet" /\ last' # last) => ~last'.complete]_vars

\* C9 (as stated): on a workout with zero exercises, start performs the
\* completion itself.
C9_CompletedOnStart ==
  (Ready /\ workout.exercises = <<>> /\ last.op \in {"start", "restore"})
    => \E i \in DOMAIN inflight : inflight[i].kind = "complete"

\* C9 (amended): on a workout with zero exercises the session counts as
\* complete from the start (0 of 0 sets, no set to record) and the Finish
\* Workout button is offered; completion is performed only when it is pressed.
C9_ZeroExercisesAwaitFinish ==
  (Ready /\ workout.exercises = <<>>)
    => /\ GetCurrentSet(workout, session) = Null
       /\ GetWorkoutProgress(workout, session) = [completed |-> 0, total |-> 0]
       /\ CanComplete => ENABLED FinishWorkout
       /\ last.complete => last.op = "finish"

C9_Witness ==
  /\ Ready
  /\ workout.exercises = <<>>
  /\ last.op = "start"

C11_InvalidSnapshotDiscarded ==
  (/\ Ready
   /\ last.op \in {"restore", "discard"}
   /\ ~WellFormedSnapshot(last.args[1], workout))
    => /\ Cursor(session) = <<0, 0>>
       /\ session.completedSets = <<>>

\* C12: in every state of an active session, what an auto-save tick writes is
\* the current session: the session its callback reads is not null, and the
\* snapshot and the store update made from it are those of the current
\* session.
C12_AutoSaveTickSaves ==
  Ready => /\ IntervalSession # Null
           /\ SaveSnapshot(IntervalSession) = SaveSnapshot(session)
           /\ SaveOp(workout, IntervalSession) = SaveOp(workout, session)

\* C13: a pause or a resume changes neither the cursor nor the completed-set
\* list, whether a set is being done or a rest is running.
C13_PauseResumeKeepCursor ==
  [][(Ready /\ Ready' /\ isWorkoutPaused' # isWorkoutPaused)
       => /\ Cursor(session') = Cursor(session)
          /\ session'.completedSets = session.completedSets]_vars

C13_Witness ==
  /\ Ready
  /\ isWorkoutPaused
  /\ session.isPaused
  /\ currentTimer = "rest"
  /\ Cursor(session) # <<0, 0>>
  /\ session.completedSets # <<>>

\* the timer is idle at its original duration
TimerIdle(t) ==
  /\ t.timeRemaining = t.initialTime
  /\ ~t.isRunning
  /\ ~t.isPaused
  /\ ~t.hasStarted

\* C14: pausing the session during a rest and resuming it (the timer's
\* isActive going false, then true) leaves the remaining time as it was, and
\* no tick happens while the session is paused.
C14_PauseKeepsRemaining ==
  [][(timer # Null /\ timer' # Null /\ timer' # timer)
       => /\ timer'.isActive # timer.isActive
               => timer'.timeRemaining = timer.timeRemaining
          /\ timer'.op = "tick" => timer.isActive]_vars

\* C15: between two resets of its state a timer invokes its completion
\* callback at most once, whatever adjust, pause, start and custom-time
\* operations follow the first completion.
C15_CompletesOnce == timer # Null => timer.fired <= 1

\* C16: the timer's remaining time is never negative.
C16_RemainingNotNegative == timer # Null => timer.timeRemaining >= 0

\* C17: reset leaves the timer idle at its original duration, and no tick
\* happens after a reset until start is pressed.
C17_ResetToIdle ==
  timer # Null => /\ timer.op = "reset" => TimerIdle(timer)
                  /\ timer.op = "tick" => ~timer.reset

\* C18: every time the timer completes the completion callback is invoked,
\* also when the sound, the notification or the vibration throws or is
\* unavailable.
C18_CallbackDespiteFailure == timer # Null => timer.fired = timer.completions

C18_Witness ==
  /\ timer # Null
  /\ timer.op = "tick"
  /\ timer.timeRemaining = 0
  /\ timer.completions = 1
  /\ timer.fired = 1
  /\ timer.threw

\* a ?? b on an optional number: only undefined takes the fallback
Coalesce(optional, fallback) ==
  IF optional = {} THEN fallback ELSE CHOOSE v \in optional : TRUE

SpecSetVolume(set) ==
  Coalesce(set.actualWeight, set.targetWeight) *
  Coalesce(set.actualReps, set.targetReps)

\* every set of every exercise of the history, as a bag-like set of places
SetPlaces(history) ==
  {<<w, e, i>> \in (DOMAIN history) \X (1..2) \X (1..2) :
     /\ e \in DOMAIN history[w].exercises
     /\ i \in DOMAIN history[w].exercises[e].sets}

RECURSIVE SpecVolumeOver(_, _)
SpecVolumeOver(places, history) ==
  IF places = {} THEN 0
  ELSE LET p == CHOOSE q \in places : TRUE
       IN SpecSetVolume(history[p[1]].exercises[p[2]].sets[p[3]]) +
          SpecVolumeOver(places \ {p}, history)

SpecTotalVolume(history) == SpecVolumeOver(SetPlaces(history), history)

\* C19: totalVolume is the sum over every set of every exercise of every
\* workout of (actualWeight if defined else targetWeight) times (actualReps
\* if defined else targetReps); a recorded 0 counts as 0.
C19_TotalVolume ==
  (stats # Null /\ stats.out # Null)
    => stats.out.totalVolume = SpecTotalVolume(stats.given)

\* the local days on which the history has a workout
WorkoutDays(history) ==
  {LocalDayOf(history[i].date) : i \in DOMAIN history}

\* the length of the run of consecutive workout days that ends at day `last`
RunEndingAt(lastDay, days) ==
  Cardinality({k \in 0..Today :
                 \A j \in 0..k : (lastDay - j) \in days})

\* C20: the streak is 0 when the most recent workout day is more than one day
\* before today; otherwise it is the length of the run of consecutive workout
\* days ending today if today has a workout, else yesterday; for a history
\* given in any order.
C20_CurrentStreak ==
  (stats # Null /\ stats.out # Null)
    => LET days == WorkoutDays(stats.given)
           today == LocalDayOf(stats.now)
       IN stats.out.currentStreak =
            IF days = {} \/ \A d \in days : d < today - 1 THEN 0
            ELSE IF today \in days THEN RunEndingAt(today, days)
            ELSE RunEndingAt(today - 1, days)

C20_Witness ==
  /\ stats # Null
  /\ stats.out # Null
  /\ stats.out.currentStreak = 3
  /\ Len(stats.given) = 3
  /\ stats.given[1].date < stats.given[2].date
  /\ stats.given[3].date < stats.given[2].date

\* the places <<workout, exercise, set>> of the sets of one exercise type
TypePlaces(history, id) ==
  UNION {UNION {{<<w, e, i>> : i \in DOMAIN history[w].exercises[e].sets} :
                  e \in {x \in DOMAIN history[w].exercises :
                           history[w].exercises[x].exerciseType = id}} :
           w \in DOMAIN history}

SetAt(history, p) == history[p[1]].exercises[p[2]].sets[p[3]]

RecordKinds == {"maxWeight", "maxReps", "maxVolume"}

\* what a set counts for each kind of record: its weight, its reps, their
\* product (the recorded value when there is one, else the target)
SpecSetValue(set, kind) ==
  CASE kind = "maxWeight" -> Coalesce(set.actualWeight, set.targetWeight)
    [] kind = "maxReps" -> Coalesce(set.actualReps, set.targetReps)
    [] kind = "maxVolume" -> SpecSetVolume(set)

\* the catalog's exercise types that have a set in the history
OccurringTypes(history, exerciseTypes) ==
  {id \in {exerciseTypes[i] : i \in DOMAIN exerciseTypes} :
     TypePlaces(history, id) # {}}

\* the set at place p has the highest value of its type for the kind
Attains(history, p, id, kind) ==
  \A q \in TypePlaces(history, id) :
     SpecSetValue(SetAt(history, q), kind) <=
       SpecSetValue(SetAt(history, p), kind)

\* the returned records of one exercise type and kind
RecordsOf(out, id, kind) ==
  {out.personalRecords[n] : n \in
     {m \in DOMAIN out.personalRecords :
        /\ out.personalRecords[m].exerciseId = id
        /\ out.personalRecords[m].type = kind}}

\* C21: for every catalog exercise type that occurs in the history and every
\* record kind, the record holds the maximum set weight, set reps or
\* single-set weight x reps over all sets of that type, with the date and id
\* of a workout that contains a set attaining it; when all records fit in
\* the returned list, each of them is there.
C21_PersonalRecords ==
  (stats # Null /\ stats.out # Null)
    => LET history == stats.given
           types == OccurringTypes(history, stats.exerciseTypes)
       IN \A id \in types, kind \in RecordKinds :
            LET found == RecordsOf(stats.out, id, kind)
            IN /\ 3 * Cardinality(types) <= TopRecords => found # {}
               /\ \A record \in found :
                    \E p \in TypePlaces(history, id) :
                       /\ Attains(history, p, id, kind)
                       /\ record.value = SpecSetValue(SetAt(history, p), kind)
                       /\ record.workoutId = history[p[1]].id
                       /\ record.date = history[p[1]].date

\* C22: when workouts on different dates contain sets attaining the maximum
\* of an (exercise type, record kind) pair, the returned record carries the
\* date and the workout id of the chronologically earliest of them.
C22_EarliestOnTie ==
  (stats # Null /\ stats.out # Null)
    => LET history == stats.given
       IN \A id \in OccurringTypes(history, stats.exerciseTypes),
             kind \in RecordKinds :
            \A record \in RecordsOf(stats.out, id, kind) :
               /\ \E w \in DOMAIN history :
                     /\ history[w].id = record.workoutId
                     /\ history[w].date = record.date
               /\ \A p \in TypePlaces(history, id) :
                     Attains(history, p, id, kind)
                       => record.date <= history[p[1]].date

\* every record the scan of a history ends with, as <<exercise type, kind,
\* value>>
Candidates(history, exerciseTypes) ==
  LET ids == {exerciseTypes[i] : i \in DOMAIN exerciseTypes}
      all == AllRecords(ScanWorkouts([id \in ids |-> NoRecords], history),
                        exerciseTypes)
  IN {<<all[i].exerciseId, all[i].type, all[i].value>> : i \in DOMAIN all}

Returned(out) ==
  {<<out.personalRecords[i].exerciseId, out.personalRecords[i].type,
     out.personalRecords[i].value>> : i \in DOMAIN out.personalRecords}

\* C23: the returned personalRecords are at most 10, ordered by value
\* descending, and are the highest-valued records over all exercise types and
\* kinds: no omitted record has a value greater than a returned one.
C23_TopTenByValue ==
  (stats # Null /\ stats.out # Null)
    => LET list == stats.out.personalRecords
           candidates == Candidates(stats.given, stats.exerciseTypes)
           returned == Returned(stats.out)
       IN /\ Len(list) <= TopRecords
          /\ Len(list) = Cardinality(returned)
          /\ Len(list) = IF Cardinality(candidates) < TopRecords
                           THEN Cardinality(candidates) ELSE TopRecords
          /\ \A i, j \in DOMAIN list : i < j => list[i].value >= list[j].value
          /\ returned \subseteq candidates
          /\ \A omitted \in candidates \ returned :
                \A kept \in returned : omitted[3] <= kept[3]

C23_Witness ==
  /\ stats # Null
  /\ stats.out # Null
  /\ Len(stats.out.personalRecords) = TopRecords
  /\ Cardinality(Candidates(stats.given, stats.exerciseTypes)) > TopRecords
  /\ stats.out.personalRecords[1].value > stats.out.personalRecords[TopRecords].value
  /\ Len(stats.given) = 3
  /\ stats.given[1].date < stats.given[2].date

\* the number of the Sunday-to-Saturday week a date lies in
WeekOf(date) == (LocalDayOf(date) - FirstSunday + 7) \div 7

\* C24: two workouts fall in the same bucket exactly when their dates lie in
\* the same Sunday-to-Saturday week (so workouts 8 days apart, or on the same
\* weekday one week apart, never share a bucket): there is one bucket for
\* each week that has a workout, it counts the workouts of that week, and
\* the buckets are emitted by week start, oldest first.
C24_WeeklyBuckets ==
  (stats # Null /\ stats.out # Null)
    => LET history == stats.given
           weeks == stats.out.weeklyProgress
       IN /\ \A i \in DOMAIN history :
                \E b \in DOMAIN weeks :
                   WeekOf(weeks[b].date) = WeekOf(history[i].date)
          /\ \A b \in DOMAIN weeks :
                /\ WeekdayOf(LocalDayOf(weeks[b].date)) = 0
                /\ weeks[b].workoutCount =
                     Cardinality({i \in DOMAIN history :
                        WeekOf(history[i].date) = WeekOf(weeks[b].date)})
          /\ \A a, b \in DOMAIN weeks :
                a < b => /\ weeks[a].date < weeks[b].date
                         /\ WeekOf(weeks[a].date) < WeekOf(weeks[b].date)

C24_Witness ==
  /\ stats # Null
  /\ stats.out # Null
  /\ Len(stats.given) = 3
  /\ LocalDayOf(stats.given[1].date) = FirstSunday + 8
  /\ LocalDayOf(stats.given[2].date) = FirstSunday
  /\ LocalDayOf(stats.given[3].date) = FirstSunday + 7
  /\ Len(stats.out.weeklyProgress) = 2
  /\ stats.out.weeklyProgress[1].workoutCount = 1
  /\ stats.out.weeklyProgress[2].workoutCount = 2

\* C27: calculateDashboardStats has no side effects: after the call the
\* workouts list it was given holds the same elements in the same order, and
\* the catalog is unchanged.
C27_ArgumentsUnchanged ==
  (stats # Null /\ stats.out # Null)
    => /\ stats.workouts = stats.given
       /\ stats.exerciseTypes = Catalog

\* the sum of the durations of the workouts at the given indices
RECURSIVE SpecDurationOver(_, _)
SpecDurationOver(indices, history) ==
  IF indices = {} THEN 0
  ELSE LET i == CHOOSE j \in indices : TRUE
       IN history[i].duration + SpecDurationOver(indices \ {i}, history)

\* C28: for an empty list every total is 0 and both lists are empty; for a
\* non-empty list averageWorkoutDuration is totalDuration / workoutCount.
C28_AverageDuration ==
  (stats # Null /\ stats.out # Null)
    => LET history == stats.given
           out == stats.out
       IN IF history = <<>>
            THEN /\ out.totalWorkouts = 0
                 /\ out.totalVolume = 0
                 /\ out.averageWorkoutDuration = <<0, 1>>
                 /\ out.currentStreak = 0
                 /\ out.personalRecords = <<>>
                 /\ out.weeklyProgress = <<>>
            ELSE /\ out.averageWorkoutDuration[2] > 0
                 /\ out.averageWorkoutDuration[1] * Len(history) =
                      out.averageWorkoutDuration[2] *
                        SpecDurationOver(DOMAIN history, history)

C28_Witness ==
  /\ stats # Null
  /\ stats.out # Null
  /\ Len(stats.given) = 2
  /\ stats.given[1].duration = 30
  /\ stats.given[2].duration = 45
  /\ stats.out.averageWorkoutDuration = <<75, 2>>

\* C25: calculateOneRepMax returns weight when reps = 1 and otherwise
\* weight / (1.0278 - 0.0278 x reps) rounded to the nearest integer, also for
\* reps = 0: (100, 1) gives 100, (80, 5) gives 90, (0, 5) gives 0 and
\* (100, 0) gives 97.
C25_OneRepMax ==
  (calc # Null /\ calc.out # {})
    => \A out \in calc.out :
          /\ calc.reps = 1 => out = calc.weight
          /\ calc.reps # 1 =>
               2 * Abs(out * Brzycki(calc.reps) - 10000 * calc.weight)
                 <= Abs(Brzycki(calc.reps))
          /\ (calc.weight = 100 /\ calc.reps = 1) => out = 100
          /\ (calc.weight = 80 /\ calc.reps = 5) => out = 90
          /\ (calc.weight = 0 /\ calc.reps = 5) => out = 0
          /\ (calc.weight = 100 /\ calc.reps = 0) => out = 97

C25_Witness ==
  /\ calc # Null
  /\ calc.weight = 80
  /\ calc.reps = 5
  /\ calc.out = {90}

\* C26: findPlateaus returns false on fewer than 4 points; otherwise it is
\* true exactly when, over the last 4 values of the metric, the population
\* standard deviation divided by the mean is below 0.05, the ratio being 0
\* when the mean is 0.  With S the sum and Q the sum of the squares of the 4
\* values, mean = S / 4 and variance = Q / 4 - S^2 / 16, so the ratio is
\* below 1/20 exactly when 1600 Q < 401 S^2.  Four equal values give true,
\* four values each 20% above the previous give false.
C26_Plateau ==
  (calc # Null /\ calc.out # {})
    => LET series == calc.weeklyStats
           n == Len(series)
           v(k) == series[n - k][calc.metric]
           S == v(3) + v(2) + v(1) + v(0)
           Q == v(3) * v(3) + v(2) * v(2) + v(1) * v(1) + v(0) * v(0)
       IN IF n < 4 THEN calc.out = {FALSE}
          ELSE /\ calc.out = {IF S = 0 THEN TRUE ELSE 1600 * Q < 401 * S * S}
               /\ (v(3) = v(2) /\ v(2) = v(1) /\ v(1) = v(0))
                     => calc.out = {TRUE}
               /\ (/\ v(3) > 0
                   /\ \A k \in 0..2 : 5 * v(k) = 6 * v(k + 1))
                     => calc.out = {FALSE}

C26_Witness ==
  /\ calc # Null
  /\ calc.out = {TRUE}
  /\ calc.metric = "totalVolume"
  /\ Len(calc.weeklyStats) = 5
  /\ calc.weeklyStats[1].totalVolume = 0
  /\ \A i \in 2..5 : calc.weeklyStats[i].totalVolume = 150

\* a step in which completeSet recorded a set
CompleteSetStep ==
  /\ Ready
  /\ Ready'
  /\ last'.op = "completeSet"
  /\ ~last'.rejected
  /\ Len(inflight') > Len(inflight)

\* C30: completeSet on a set that is not the last of its exercise starts the
\* rest timer with that set's configured restTime and leaves the cursor where
\* it is; on the last set of an exercise it starts no rest and moves the
\* cursor to set 0 of the next exercise, or runs completion when the exercise
\* was the last one.
C30_RestOrAdvance ==
  [][CompleteSetStep
       => LET exercise == GetCurrentExercise(workout, session)
              currentSet == GetCurrentSet(workout, session)
              e == session.currentExerciseIndex
          IN IF session.currentSetIndex # Len(exercise.sets) - 1
               THEN /\ currentTimer' = "rest"
                    /\ restTime' = currentSet.restTime
                    /\ Cursor(session') = Cursor(session)
                    /\ ~last'.complete
               ELSE /\ currentTimer' # "rest"
                    /\ IF e = Len(workout.exercises) - 1
                         THEN /\ last'.complete
                              /\ Awaiting("complete")' = Awaiting("complete") + 1
                         ELSE /\ Cursor(session') = <<e + 1, 0>>
                              /\ ~last'.complete]_vars

C30_Witness ==
  /\ Ready
  /\ last.op = "completeSet"
  /\ ~last.rejected
  /\ currentTimer = "rest"
  /\ restTime = RestTimeOf(1)
  /\ Cursor(session) = <<0, 1>>
  /\ pending = <<>>

\* a step in which a workout was started from a template: a record that is
\* not a template was added
StartStep ==
  /\ Len(store') = Len(store) + 1
  /\ ~store'[Len(store')].isTemplate

\* C29: no Workout record with isTemplate = true ever carries a completedAt,
\* after any sequence of template creation and edit, start from a template,
\* session completion and bulk status updates; and starting a workout from a
\* template adds a separate record with isTemplate = false and leaves every
\* record there was, the template included, unchanged.
C29_TemplateNeverCompleted ==
  /\ [](\A id \in DOMAIN store :
          store[id].isTemplate => store[id].completedAt = {})
  /\ [][StartStep => \A id \in DOMAIN store : store'[id] = store[id]]_vars

\* the entries of a completed-set list for one set id
EntriesOf(css, id) == SelectSeq(css, LAMBDA cs : cs.id = id)

\* C31: the session's completed-set list never holds two entries with the
\* same set id; a completeSet call leaves exactly one entry for the current
\* set, carrying the reps and weight of that call, and the entries of the
\* other sets as they were; no other operation of a running session changes
\* the list, and a session resumed after an exit has the list it had.
C31_OneEntryPerSet ==
  /\ [](session # Null =>
          \A i, j \in DOMAIN session.completedSets :
            session.completedSets[i].id = session.completedSets[j].id => i = j)
  /\ [][CompleteSetStep
         => LET currentSet == GetCurrentSet(workout, session)
            IN /\ EntriesOf(session'.completedSets, currentSet.id)
                    = <<[currentSet EXCEPT !.actualReps = {last'.args[1]},
                                           !.actualWeight = {last'.args[2]},
                                           !.completed = TRUE]>>
               /\ \A id \in AllSetIds(workout) \ {currentSet.id} :
                    EntriesOf(session'.completedSets, id)
                      = EntriesOf(session.completedSets, id)]_vars
  /\ [][(Ready /\ Ready' /\ ~CompleteSetStep)
         => session'.completedSets = session.completedSets]_vars
  /\ [][(~mounted /\ mounted' /\ exitSession # Null)
         => session'.completedSets = exitSession.completedSets]_vars

\* the only set of the workout was completed with 1 rep, which the store has,
\* and then again with 2 reps
C31_Witness ==
  /\ Ready
  /\ last.op = "completeSet"
  /\ ~last.rejected
  /\ last.args = <<2, 0>>
  /\ Len(session.completedSets) = 1
  /\ session.completedSets[1].id = <<0, 0>>
  /\ session.completedSets[1].actualReps = {2}
  /\ DbSet(<<0, 0>>).completed
  /\ DbSet(<<0, 0>>).actualReps = {1}

\* C32: a step of a running session that changes the cursor or the
\* completed-set list runs saveProgress: the snapshot then has the cursor, the
\* completed sets and the notes of the in-memory session, and the store update
\* that merges the completed sets is the last one issued; once no such update
\* is outstanding the store's record has every completed set of the session.
C32_SavedAfterChange ==
  /\ [][(/\ Ready
          /\ Ready'
          /\ \/ Cursor(session') # Cursor(session)
             \/ session'.completedSets # session.completedSets)
         => /\ ~ParseFails(snapshot')
            /\ Cursor(snapshot') = Cursor(session')
            /\ snapshot'.completedSets = session'.completedSets
            /\ snapshot'.notes = session'.notes
            /\ inflight' # <<>>
            /\ inflight'[Len(inflight')] = SaveOp(workout, session')]_vars
  /\ [](Ready /\ Awaiting("save") = 0
          => \A i \in DOMAIN session.completedSets :
               DbSet(session.completedSets[i].id) = session.completedSets[i])

\* two sets were completed, the cursor has moved on and every save has settled
C32_Witness ==
  /\ Ready
  /\ Len(session.completedSets) = 2
  /\ Cursor(session) \in {<<0, 1>>, <<1, 0>>}
  /\ Awaiting("save") = 0
  /\ snapshot # Null
  /\ snapshot.completedSets = session.completedSets
  /\ \A i \in 1..2 : DbSet(session.completedSets[i].id).completed

\* the component's state
Memory ==
  <<mounted, workout, session, currentTimer, restTime, isWorkoutPaused, pending>>

\* a step that rendered a new session, whose effect ran saveProgress
SessionStep == mounted' /\ session' # Null /\ session' # session

\* saveProgress got as far as issuing its store update
SaveIssued ==
  /\ Len(inflight') > Len(inflight)
  /\ inflight'[Len(inflight')].kind = "save"

\* a store update of saveProgress settled, with either result
SaveSettled ==
  /\ inflight # <<>>
  /\ Head(inflight).kind = "save"
  /\ inflight' = Tail(inflight)

\* C33: a persistence write of saveProgress that fails is caught.  When the
\* snapshot write throws, the component's state (cursor, completed sets,
\* timer state) and what the user is shown are those of the same step with a
\* successful write, and the stored snapshot is left as it was; when the
\* store update settles, with a failure as with a success, the component's
\* state is untouched and nothing is shown.  Afterwards every operation of
\* the session is enabled wherever the screen offers it.
C33_SaveFailureKeepsSession ==
  /\ [][(SessionStep /\ ~SaveIssued)
         => /\ snapshot' = snapshot
            /\ faults' = faults - 1
            /\ \E m \in {<<Memory', last'>>} :
                 ENABLED (FailNext /\ SaveIssued /\ <<Memory', last'>> = m)]_vars
  /\ [][SaveSettled => UNCHANGED <<Memory, last, snapshot>>]_vars
  /\ [](Ready /\ CanSave /\ CanComplete
          => /\ TrackerEnabled => ENABLED HandleComplete(1, 0)
             /\ currentTimer = "rest" => ENABLED SkipRest
             /\ (currentTimer = "rest" /\ ~isWorkoutPaused /\ pending = <<>>)
                  => ENABLED RestComplete
             /\ ~isWorkoutPaused => ENABLED PauseWorkout
             /\ isWorkoutPaused => ENABLED ResumeWorkout
             /\ FinishVisible(workout, session) => ENABLED FinishWorkout
             /\ ENABLED Exit)

\* a set was completed while the snapshot write threw and its store update
\* was never issued: the session has the set, the snapshot and the store do
\* not, and the rest is running
C33_Witness ==
  /\ Ready
  /\ faults = 0
  /\ last.op = "completeSet"
  /\ ~last.rejected
  /\ Len(session.completedSets) = 1
  /\ currentTimer = "rest"
  /\ snapshot # Null
  /\ snapshot.completedSets = <<>>
  /\ inflight = <<>>
  /\ ~DbSet(<<0, 0>>).completed

\* C34: one rest period advances the cursor once.  The cursor moves to
\* another set of the same exercise only in the step that ends a running
\* rest, by exactly one set, and onto a set the exercise has; this also when
\* the rest timer's completion callback and Skip Rest both run before the
\* component renders again.
C34_OneAdvancePerRest ==
  [][(/\ Ready
      /\ Ready'
      /\ session'.currentExerciseIndex = session.currentExerciseIndex
      /\ session'.currentSetIndex # session.currentSetIndex)
     => /\ currentTimer = "rest"
        /\ currentTimer' # "rest"
        /\ session'.currentSetIndex = session.currentSetIndex + 1
        /\ session'.currentSetIndex
             < Len(GetCurrentExercise(workout, session).sets)]_vars

\* C35: a fresh session on a workout with at least one exercise, in which
\* the user keeps completing the current set with valid values and every rest
\* ends, eventually reaches completion, and when completion has succeeded the
\* number of completed sets is the number of sets of the workout.
C35_EventuallyCompleted ==
  <>(/\ completedOk
     /\ Ready
     /\ GetWorkoutProgress(workout, session).completed
          = GetWorkoutProgress(workout, session).total)

\* C36: while the rest timer is shown or the workout is paused the set
\* tracker is disabled, so that no set can be recorded; the completed-set
\* list of a running session changes only in steps taken with no rest shown
\* and the workout not paused.
C36_TrackerDisabled ==
  /\ []((Ready /\ (currentTimer = "rest" \/ isWorkoutPaused))
          => ~ENABLED (\E in \in SetInputs : HandleComplete(in[1], in[2])))
  /\ [][(Ready /\ Ready' /\ session'.completedSets # session.completedSets)
         => (currentTimer # "rest" /\ ~isWorkoutPaused)]_vars

\* a set was recorded, its rest is shown and the workout is paused, with the
\* cursor on a set and no store update outstanding
C36_Witness ==
  /\ Ready
  /\ currentTimer = "rest"
  /\ isWorkoutPaused
  /\ Len(session.completedSets) = 1
  /\ GetCurrentSet(workout, session) # Null
  /\ inflight = <<>>
  /\ pending = <<>>

\* C37: in every state of a session, right after a restore from a snapshot
\* included, the session's isPaused flag equals the executor's
\* isWorkoutPaused flag.
C37_PausedFlagsAgree == Ready => session.isPaused = isWorkoutPaused

\* C38: every entry of the session's completed-set list is a set of the
\* executed workout, with completed = true, actualReps > 0 and
\* actualWeight >= 0, and the list has no more entries than the workout has
\* sets.
C38_CompletedEntriesValid ==
  Ready =>
    /\ \A i \in DOMAIN session.completedSets :
         LET cs == session.completedSets[i] IN
         /\ cs.id \in AllSetIds(workout)
         /\ cs.restTime = workout.exercises[cs.id[1] + 1].sets[cs.id[2] + 1].restTime
         /\ cs.completed
         /\ cs.actualReps # {}
         /\ \A reps \in cs.actualReps : reps > 0
         /\ cs.actualWeight # {}
         /\ \A weight \in cs.actualWeight : weight >= 0
    /\ Len(session.completedSets) <= SumSets(workout.exercises)

\* every set of a three-set workout is in the list, the last one recorded
\* with 2 reps after invalid values were refused
C38_Witness ==
  /\ Ready
  /\ SumSets(workout.exercises) = 3
  /\ Len(session.completedSets) = 3
  /\ session.completedSets[3].actualReps = {2}
  /\ session.completedSets[3].actualWeight = {0}
  /\ last.op = "completeSet"
  /\ ~last.rejected

RECURSIVE CountOfWeeks(_)
CountOfWeeks(weeks) ==
  IF weeks = <<>> THEN 0 ELSE Head(weeks).workoutCount + CountOfWeeks(Tail(weeks))

RECURSIVE VolumeOfWeeks(_)
VolumeOfWeeks(weeks) ==
  IF weeks = <<>> THEN 0 ELSE Head(weeks).totalVolume + VolumeOfWeeks(Tail(weeks))

\* C39: the weekly series conserves the history: the workoutCount of the
\* buckets sum to the number of workouts, their totalVolume sum to the
\* totalVolume of calculateDashboardStats, and every workout lies in the week
\* of exactly one bucket.
C39_WeeklyConservation ==
  (stats # Null /\ stats.out # Null)
    => LET history == stats.given
           weeks == stats.out.weeklyProgress
       IN /\ CountOfWeeks(weeks) = Len(history)
          /\ CountOfWeeks(weeks) = stats.out.totalWorkouts
          /\ VolumeOfWeeks(weeks) = stats.out.totalVolume
          /\ \A i \in DOMAIN history :
                Cardinality({b \in DOMAIN weeks :
                               WeekOf(weeks[b].date) = WeekOf(history[i].date)}) = 1

\* three workouts in two weeks: 20 in the first week, 86 and 81 in the second
C39_Witness ==
  /\ stats # Null
  /\ stats.out # Null
  /\ Len(stats.given) = 3
  /\ Len(stats.out.weeklyProgress) = 2
  /\ stats.out.weeklyProgress[1].totalVolume = 20
  /\ stats.out.weeklyProgress[2].totalVolume = 167
  /\ stats.out.weeklyProgress[2].workoutCount = 2
  /\ stats.out.totalVolume = 187

====
